---- MODULE Spec2Model ----
(***************************************************************************)
(* The print job queue of the CA-RD server (server/index.js): the in-memory *)
(* printQueue, the HTTP handlers that enqueue, claim and report print jobs, *)
(* the cleanupQueue garbage collection and the periodic sweep, together     *)
(* with the print stations (PrintStation.tsx) that consume the jobs.        *)
(*                                                                          *)
(* Time is Date.now() in abstract units; JavaScript null is modelled as 0   *)
(* for claimedAt (both are falsy, and Date.now() is never 0) and as the     *)
(* string "null" for claimedBy.  uuidv4() is modelled by a counter: every   *)
(* call returns an id that was never returned before.                       *)
(***************************************************************************)
EXTENDS Integers, Sequences, FiniteSets, TLC

\* ---------------------------------------------------------------- bounds
MaxJobs == 2
MaxTime == 4
MaxLiveJobs == 1
MaxSessions == 1
\* socket events a print station has received and not yet handled
MaxInbox == 2
\* claimNext calls of one print station that are in progress at once
MaxCalls == 2

\* ------------------------------------------------------- program constants
\* The two TTLs are configuration (environment variables, defaults 300000 ms
\* and 60000 ms); here they are counted in clock ticks, the claim TTL below
\* the job TTL as in the defaults.
MAX_FAILS == 3
PRINT_JOB_TTL_MS == 2
PRINT_CLAIM_TTL_MS == 1

\* The session TTL is configuration too (default 600000 ms).
INPUT_SESSION_TTL_MS == 2

NULL == "null"

\* Values of the clientId query parameter of GET /api/print/next sent by
\* clients other than the print stations; "" is a request without the
\* parameter.
ClientQueries == {""}

\* String(req.query.clientId || "unknown")
clientIdOf(q) == IF q = "" THEN "unknown" ELSE q

\* clientId of the print stations (getClientId of PrintStation.tsx)
StationIds == {"stationA", "stationB"}

\* Request bodies of POST /api/print: image is "" when missing or empty,
\* meta is "none" when missing or not an object.
PrintBodies ==
  { [image |-> "", meta |-> "none"],
    [image |-> "imgX", meta |-> "metaA"] }

\* Values of req.body.status of POST /api/print/:jobId/done; "" is a missing
\* status.
Statuses == {"printed", "failed", ""}

JobIds == 1..MaxJobs

VARIABLES
  printQueue,   \* the printQueue array: sequence of job records
  now,          \* Date.now()
  nextId,       \* number of uuidv4() calls made so far, plus one
  stations,     \* per print station: the job it received and has not yet reported
  events,       \* socket.io events broadcast by the most recent handler
  last,         \* the most recent handler and its HTTP response
  inputSessions,\* the inputSessions Map: token -> session record
  nextToken,    \* number of session tokens issued so far, plus one
  sessionLast,  \* the most recent input-session handler, its request and response
  gen,          \* the generator call in progress: attempts, log, result
  api,          \* the /api/generate or /api/questions request in progress, or the
                \* most recent one with its response
  printStation  \* per print station: the PrintStation component (busy, the busy
                \* its handlers captured, socket events not yet handled, the
                \* claimNext calls in progress)

vars ==
  <<printQueue, now, nextId, stations, events, last, inputSessions, nextToken,
    sessionLast, gen, api, printStation>>

queueVars == <<printQueue, now, nextId, events, last>>

sessionVars == <<inputSessions, nextToken, sessionLast>>

\* ----------------------------------------------------------------- helpers
\* printQueue.splice(i, 2)
RemoveTwoAt(q, i) == SubSeq(q, 1, i - 1) \o SubSeq(q, i + 2, Len(q))

\* printQueue.splice(i, 1)
RemoveAt(q, i) == SubSeq(q, 1, i - 1) \o SubSeq(q, i + 1, Len(q))

Ids(q) == {q[i].id : i \in 1..Len(q)}

\* printQueue.findIndex((job) => job.id === jobId && job.claimedAt)
findIndexClaimed(q, jobId) ==
  IF \E i \in 1..Len(q) : q[i].id = jobId /\ q[i].claimedAt # 0
  THEN CHOOSE i \in 1..Len(q) : q[i].id = jobId /\ q[i].claimedAt # 0
  ELSE 0

\* printQueue.findIndex(...) used without the -1 test: splice(-1, 1) addresses
\* the tail of the queue
findIndexOrTail(q, jobId) ==
  IF \E i \in 1..Len(q) : q[i].id = jobId
  THEN CHOOSE i \in 1..Len(q) : q[i].id = jobId
  ELSE Len(q)

\* printQueue.findIndex((job) => job.id === jobId); 0 stands for -1
findIndex(q, jobId) ==
  IF \E i \in 1..Len(q) : q[i].id = jobId
  THEN CHOOSE i \in 1..Len(q) :
         /\ q[i].id = jobId
         /\ \A k \in 1..(i - 1) : q[k].id # jobId
  ELSE 0

\* printQueue.find(() => true): the head of the queue, claimed or not
findAnyJob(q) == IF Len(q) > 0 THEN 1 ELSE 0

\* printQueue[printQueue.length - 1]: the tail of the queue, claimed or not
findTailJob(q) == Len(q)

\* index of printQueue.find((job) => !job.claimedAt); 0 stands for undefined
findUnclaimed(q) ==
  IF \E i \in 1..Len(q) : q[i].claimedAt = 0
  THEN CHOOSE i \in 1..Len(q) :
         /\ q[i].claimedAt = 0
         /\ \A k \in 1..(i - 1) : q[k].claimedAt # 0
  ELSE 0

\* printQueue.length
pendingCountAllJobs(q) == Len(q)

\* printQueue.filter((job) => !job.claimedAt).length
pendingCount(q) == Len(SelectSeq(q, LAMBDA job : job.claimedAt = 0))

\* io.emit("print:queue_update", { pendingCount: pendingCount() })
emitQueueUpdate(q) == [type |-> "print:queue_update", pendingCount |-> pendingCount(q), jobId |-> 0]

\* io.emit("print:new_job", {}): the event without the jobId
newJobEventNoId(jobId) == [type |-> "print:new_job", pendingCount |-> 0, jobId |-> 0]

\* io.emit("print:new_job", { jobId })
newJobEvent(jobId) == [type |-> "print:new_job", pendingCount |-> 0, jobId |-> jobId]

\* job.claimedAt && now - job.claimedAt >= CONFIG.PRINT_CLAIM_TTL_MS
claimExpiredAtTtl(job, t) == job.claimedAt # 0 /\ t - job.claimedAt >= PRINT_CLAIM_TTL_MS

\* job.claimedAt && now - job.claimedAt > CONFIG.PRINT_CLAIM_TTL_MS
claimExpired(job, t) == job.claimedAt # 0 /\ t - job.claimedAt > PRINT_CLAIM_TTL_MS

\* job.claimedAt = null; job.claimedBy = null; job.failCount = 0
releaseClaimAndCount(job) == [job EXCEPT !.claimedAt = 0, !.claimedBy = NULL, !.failCount = 0]

\* job.claimedAt = null; job.claimedBy = null
releaseClaim(job) == [job EXCEPT !.claimedAt = 0, !.claimedBy = NULL]

\* now - job.createdAt >= CONFIG.PRINT_JOB_TTL_MS || job.failCount >= MAX_FAILS
jobEvictableAtTtl(job, t) == t - job.createdAt >= PRINT_JOB_TTL_MS \/ job.failCount >= MAX_FAILS

\* job.failCount >= MAX_FAILS, the age of the job is not looked at
jobEvictableByFailsOnly(job, t) == job.failCount >= MAX_FAILS

\* now - job.createdAt > CONFIG.PRINT_JOB_TTL_MS || job.failCount >= MAX_FAILS
jobEvictable(job, t) == t - job.createdAt > PRINT_JOB_TTL_MS \/ job.failCount >= MAX_FAILS

\* The loop of cleanupQueue with a second i -= 1 after printQueue.splice(i, 1):
\* the job in front of an evicted job is skipped
RECURSIVE cleanupLoopSkipping(_, _, _, _)
cleanupLoopSkipping(q, i, changed, t) ==
  IF i < 1
  THEN [queue |-> q, changed |-> changed]
  ELSE LET job == q[i]
           expired == claimExpired(job, t)
           job1 == IF expired THEN releaseClaim(job) ELSE job
           evict == jobEvictable(job1, t)
           q1 == IF evict THEN RemoveAt(q, i) ELSE [q EXCEPT ![i] = job1]
       IN cleanupLoopSkipping(q1, IF evict THEN i - 2 ELSE i - 1,
                              changed \/ expired \/ evict, t)

\* One iteration of the loop of cleanupQueue on printQueue[i], then the
\* iterations for i-1 .. 1; the loop runs from the tail to the head.
RECURSIVE cleanupLoop(_, _, _, _)
cleanupLoop(q, i, changed, t) ==
  IF i < 1
  THEN [queue |-> q, changed |-> changed]
  ELSE LET job == q[i]
           expired == claimExpired(job, t)
           job1 == IF expired THEN releaseClaim(job) ELSE job
           evict == jobEvictable(job1, t)
           q1 == IF evict THEN RemoveAt(q, i) ELSE [q EXCEPT ![i] = job1]
       IN cleanupLoop(q1, i - 1, changed \/ expired \/ evict, t)

\* nextJob.claimedAt = nextJob.createdAt = Date.now(); nextJob.claimedBy = clientId
claimJobRestamped(job, t, clientId) ==
  [job EXCEPT !.claimedAt = t, !.claimedBy = clientId, !.createdAt = t]

\* nextJob.claimedAt = Date.now(); nextJob.claimedBy = clientId
claimJob(job, t, clientId) == [job EXCEPT !.claimedAt = t, !.claimedBy = clientId]

\* job.failCount += 1, the claim is kept
failJobKeepClaim(job) == [job EXCEPT !.failCount = @ + 1]

\* job.failCount += 1; job.claimedAt = null; job.claimedBy = null
failJob(job) == releaseClaim([job EXCEPT !.failCount = @ + 1])

\* job.failCount > MAX_FAILS
failCapExceeded(job) == job.failCount > MAX_FAILS

\* job.failCount >= MAX_FAILS
failCapReached(job) == job.failCount >= MAX_FAILS

\* cleanupQueue() that returns before its loop
cleanupQueueNoGc(q, t) == [queue |-> q, changed |-> FALSE]

\* cleanupQueue(): one pass over printQueue at the instant t = Date.now()
cleanupQueue(q, t) == cleanupLoop(q, Len(q), FALSE, t)

\* ids of the jobs that are claimed in q and released or absent in q2
Released(q, q2) ==
  {q[i].id : i \in {k \in 1..Len(q) :
       /\ q[k].claimedAt # 0
       /\ \/ q[k].id \notin Ids(q2)
          \/ \E m \in 1..Len(q2) : q2[m].id = q[k].id /\ q2[m].claimedAt = 0}}

\* A station is idle (busy = false) or works on the job it received; `live`
\* says that the claim under which it received the job was not released since.
Idle == [jobId |-> 0, live |-> FALSE]

Unlive(st, lost) ==
  [s \in StationIds |-> IF st[s].jobId \in lost THEN [st[s] EXCEPT !.live = FALSE] ELSE st[s]]

\* The PrintStation component after its first render: busy is false, the
\* socket and interval handlers call the claimNext of that render.
\* A browser that has not opened the PrintStation page
NoStation ==
  [mounted |-> FALSE, busy |-> FALSE, claimNextBusy |-> FALSE, inbox |-> 0,
   calls |-> <<>>]

\* The PrintStation component after its first render: useState(false)
Mounted == [NoStation EXCEPT !.mounted = TRUE]

Response(op, client, jobId, status, code) ==
  [op |-> op, client |-> client, jobId |-> jobId, status |-> status, code |-> code]

\* ------------------------------------------------------ text and JSON values
\* A text is a sequence of one-character strings.  A JSON value is a record
\* [t, s, n]: t is the JavaScript type ("undefined" for a missing property),
\* s the text of a string, n the value of a number counted in halves (7 is
\* 3.5) or of a boolean (2 is true, 0 is false).
Undefined == [t |-> "undefined", s |-> <<>>, n |-> 0]
JsNull == [t |-> "null", s |-> <<>>, n |-> 0]
Str(s) == [t |-> "string", s |-> s, n |-> 0]
Num(halves) == [t |-> "number", s |-> <<>>, n |-> halves]
Bool(b) == [t |-> "boolean", s |-> <<>>, n |-> IF b THEN 2 ELSE 0]
\* the array [x] of one number x, n is x in halves
Arr(halves) == [t |-> "array", s |-> <<>>, n |-> halves]
\* an object, as the value of a property that is read as a text or a number
JsObject == [t |-> "object", s |-> <<>>, n |-> 0]

NaN == -1

DigitChars == <<"0", "1", "2", "3", "4", "5", "6", "7", "8", "9">>

\* String(n) of a natural number n
RECURSIVE Dec(_)
Dec(n) ==
  IF n < 10 THEN <<DigitChars[n + 1]>>
  ELSE Dec(n \div 10) \o <<DigitChars[(n % 10) + 1]>>

\* String.prototype.trim()
RECURSIVE trim(_)
trim(s) ==
  IF s = <<>> THEN s
  ELSE IF Head(s) = " " THEN trim(Tail(s))
  ELSE IF s[Len(s)] = " " THEN trim(SubSeq(s, 1, Len(s) - 1))
  ELSE s

\* String(value ?? "")
StringOf(v) ==
  CASE v.t = "string" -> v.s
    [] v.t = "number" ->
         IF v.n % 2 = 0 THEN Dec(v.n \div 2) ELSE Dec(v.n \div 2) \o <<".", "5">>
    [] v.t = "boolean" ->
         IF v.n = 2 THEN <<"t", "r", "u", "e">> ELSE <<"f", "a", "l", "s", "e">>
    [] v.t \in {"undefined", "null"} -> <<>>
    [] v.t = "array" ->
         IF v.n % 2 = 0 THEN Dec(v.n \div 2) ELSE Dec(v.n \div 2) \o <<".", "5">>
    [] OTHER -> <<"[", "o", "b", "j", "e", "c", "t", " ", "O", "b", "j", "e", "c", "t", "]">>

\* the value, in halves, of a text of decimal digits; NaN for any other text
RECURSIVE ParseDigits(_, _)
ParseDigits(s, acc) ==
  IF s = <<>> THEN 2 * acc
  ELSE IF \E d \in 0..9 : DigitChars[d + 1] = Head(s)
  THEN ParseDigits(Tail(s), 10 * acc + (CHOOSE d \in 0..9 : DigitChars[d + 1] = Head(s)))
  ELSE NaN

\* Number(value), in halves
NumberOf(v) ==
  CASE v.t = "number" -> v.n
    [] v.t = "string" -> ParseDigits(trim(v.s), 0)
    [] v.t = "boolean" -> v.n
    [] v.t = "null" -> 0
    [] v.t = "array" -> v.n
    [] OTHER -> NaN

\* Number.isInteger(x) for x in halves
IsInteger(x) == x # NaN /\ x % 2 = 0

\* clampText(label, value, maxLen) without the slice
clampTextUncut(value, maxLen) == trim(StringOf(value))

\* clampText(label, value, maxLen); the label is used for the log line only
clampText(value, maxLen) ==
  LET trimmed == trim(StringOf(value))
  IN IF Len(trimmed) > maxLen THEN SubSeq(trimmed, 1, maxLen) ELSE trimmed

\* ------------------------------------------------------------ card records
NoCard ==
  [null |-> TRUE, name |-> <<>>, class |-> <<>>, stats |-> <<>>, skill |-> <<>>,
   description |-> <<>>]

StatNames == {"sense", "logic", "luck", "charm", "vibe"}

\* val < 0 || val > 100 in place of val < 1 || val > 100
statInvalidFromZero(val) == ~IsInteger(val) \/ val < 0 \/ val > 200

\* !Number.isInteger(val) || val < 1 || val > 100, val in halves
statInvalid(val) == ~IsInteger(val) \/ val < 2 \/ val > 200

\* normalizeCardData(raw); raw is the parsed backend response: a record
\* [t, name, class, skill, description, stats] when it is an object, stats a
\* record [t, map] when it is an object, map the properties it has
normalizeCardData(raw) ==
  IF raw.t # "object" THEN NoCard
  ELSE LET name == clampText(raw.name, 12)
           className == clampText(raw.class, 15)
           skill == clampText(raw.skill, 20)
           description == clampText(raw.description, 60)
           stat(k) == IF k \in DOMAIN raw.stats.map
                      THEN NumberOf(raw.stats.map[k]) ELSE NaN
       IN IF name = <<>> \/ className = <<>> \/ skill = <<>> \/ description = <<>>
          THEN NoCard
          ELSE IF raw.stats.t # "object" THEN NoCard
          ELSE IF \E k \in StatNames : statInvalid(stat(k)) THEN NoCard
          ELSE [null |-> FALSE, name |-> name, class |-> className,
                stats |-> [k \in StatNames |-> stat(k) \div 2],
                skill |-> skill, description |-> description]

\* ----------------------------------------------------------- input sessions
\* The result of a normalize function that returns null.
NoQuestions == [null |-> TRUE, sessionId |-> <<>>, questions |-> <<>>]

\* normalizeQuestions(raw); raw is the parsed backend response: a record
\* [t, session_id, questions] when it is an object, questions a record
\* [t, items] when it is an array, each item a record [t, id, text] when it
\* is an object
normalizeQuestions(raw) ==
  IF raw.t # "object" THEN NoQuestions
  ELSE IF raw.questions.t # "array" THEN NoQuestions
  ELSE IF Len(raw.questions.items) < 4 \/ Len(raw.questions.items) > 5 THEN NoQuestions
  ELSE LET sessionId == clampText(raw.session_id, 64)
           items == raw.questions.items
           bad(q) ==
             \/ q.t # "object"
             \/ ~IsInteger(NumberOf(q.id))
             \/ NumberOf(q.id) < 2
             \/ clampText(q.text, 30) = <<>>
       IN IF sessionId = <<>> THEN NoQuestions
          ELSE IF \E i \in 1..Len(items) : bad(items[i]) THEN NoQuestions
          ELSE [null |-> FALSE,
                sessionId |-> sessionId,
                questions |-> [i \in 1..Len(items) |->
                                 [id |-> NumberOf(items[i].id) \div 2,
                                  text |-> clampText(items[i].text, 30)]]]

NoAnswers == [null |-> TRUE, name |-> <<>>, answers |-> <<>>]

\* rawAnswers[q.id] ?? rawAnswers[String(q.id)]
answerOf(rawAnswers, id) ==
  IF id \in DOMAIN rawAnswers.map THEN rawAnswers.map[id] ELSE Undefined

\* normalizeInputAnswers(session, payload) that does not test the answers
\* for emptiness
normalizeInputAnswersUnchecked(session, payload) ==
  IF payload.t # "object" THEN NoAnswers
  ELSE LET name == clampText(payload.name, 12)
           ids == {session.questions[i].id : i \in 1..Len(session.questions)}
       IN IF name = <<>> THEN NoAnswers
          ELSE IF payload.answers.t # "object" THEN NoAnswers
          ELSE [null |-> FALSE,
                name |-> name,
                answers |-> [id \in ids |-> clampText(answerOf(payload.answers, id), 200)]]

\* normalizeInputAnswers(session, payload); payload is req.body: a record
\* [t, name, answers] when it is an object, answers a record [t, map] when it
\* is an object
normalizeInputAnswers(session, payload) ==
  IF payload.t # "object" THEN NoAnswers
  ELSE LET name == clampText(payload.name, 12)
           ids == {session.questions[i].id : i \in 1..Len(session.questions)}
       IN IF name = <<>> THEN NoAnswers
          ELSE IF payload.answers.t # "object" THEN NoAnswers
          ELSE IF \E id \in ids : clampText(answerOf(payload.answers, id), 200) = <<>>
          THEN NoAnswers
          ELSE [null |-> FALSE,
                name |-> name,
                answers |-> [id \in ids |-> clampText(answerOf(payload.answers, id), 200)]]

\* the keywords with the name marker in front of the session marker
keywordsOfNameFirst(session, normalized) ==
  SelectSeq(
    << <<"n", "a", "m", "e", ":">> \o normalized.name,
       <<"s", "e", "s", "s", "i", "o", "n", ":">> \o session.sessionId >>
    \o [i \in 1..Len(session.questions) |->
          trim(<<"q">> \o Dec(session.questions[i].id) \o <<":">>
               \o normalized.answers[session.questions[i].id])],
    LAMBDA k : k # <<>>)

\* [`session:${session.sessionId}`, `name:${normalized.name}`,
\*  ...session.questions.map((q) => `q${q.id}:${normalized.answers[q.id]}`.trim())
\* ].filter(Boolean)
keywordsOf(session, normalized) ==
  SelectSeq(
    << <<"s", "e", "s", "s", "i", "o", "n", ":">> \o session.sessionId,
       <<"n", "a", "m", "e", ":">> \o normalized.name >>
    \o [i \in 1..Len(session.questions) |->
          trim(<<"q">> \o Dec(session.questions[i].id) \o <<":">>
               \o normalized.answers[session.questions[i].id])],
    LAMBDA k : k # <<>>)

\* inputSessions.set(token, session)
MapSet(m, token, session) ==
  [k \in DOMAIN m \cup {token} |-> IF k = token THEN session ELSE m[k]]

\* inputSessions.delete(token)
MapDelete(m, token) == [k \in DOMAIN m \ {token} |-> m[k]]

\* now - session.createdAt >= CONFIG.INPUT_SESSION_TTL_MS
sessionExpiredAtTtl(session, t) == t - session.createdAt >= INPUT_SESSION_TTL_MS

\* now - session.createdAt > CONFIG.INPUT_SESSION_TTL_MS
sessionExpired(session, t) == t - session.createdAt > INPUT_SESSION_TTL_MS

\* cleanupInputSessions() that skips the sessions with answeredAt set
cleanupInputSessionsPending(m, t) ==
  [k \in {x \in DOMAIN m : ~sessionExpired(m[x], t) \/ m[x].answeredAt # 0} |-> m[k]]

\* cleanupInputSessions(): the map without its expired sessions
cleanupInputSessions(m, t) ==
  [k \in {x \in DOMAIN m : ~sessionExpired(m[x], t)} |-> m[k]]

\* getInputSession(token) that leaves an expired session in the map
getInputSessionNoDelete(m, token, t) ==
  IF token \notin DOMAIN m THEN [found |-> FALSE, store |-> m]
  ELSE IF sessionExpired(m[token], t) THEN [found |-> FALSE, store |-> m]
  ELSE [found |-> TRUE, store |-> m]

\* getInputSession(token): found is FALSE for null, store is the map after
\* the call
getInputSession(m, token, t) ==
  IF token \notin DOMAIN m THEN [found |-> FALSE, store |-> m]
  ELSE IF sessionExpired(m[token], t)
  THEN [found |-> FALSE, store |-> MapDelete(m, token)]
  ELSE [found |-> TRUE, store |-> m]

\* if (session.answeredAt) with the test left out
answeredTestMissing(session) == FALSE

\* if (session.answeredAt): null is 0
isAnswered(session) == session.answeredAt # 0

\* ------------------------------------------------------------------ inputs
\* Parsed backend responses: a question, a list of questions, a question set.
Q(id, text) == [t |-> "object", id |-> id, text |-> text]

QItems(ids) == [i \in 1..Len(ids) |-> Q(Num(2 * ids[i]), Str(<<"Q", "?">>))]

QSet(sid, items) ==
  [t |-> "object", session_id |-> sid, questions |-> [t |-> "array", items |-> items]]


\* ---------------------------------------------------- backend response texts
\* The content of a backend response is a text whose characters are written
\* out, except that the inside of a JSON object is one element: the key of
\* the object in Payloads.  <<"{", "cGood", "}">> is the JSON text of the
\* object Payloads["cGood"].
Card(name, stats) ==
  [t |-> "object", name |-> name, class |-> Str(<<"M", "a", "g", "e">>),
   skill |-> Str(<<"Z", "a", "p">>), description |-> Str(<<"H", "i">>),
   stats |-> stats]

Stats(f) == [t |-> "object", map |-> f]

\* A text of n characters that ends in "z", and the same between two blanks.
Long(n) == [i \in 1..n |-> IF i = n THEN "z" ELSE "a"]

Padded(n) == <<" ">> \o Long(n) \o <<" ">>

GoodStats ==
  [k \in StatNames |->
     IF k = "sense" THEN Num(2) ELSE IF k = "logic" THEN Num(200) ELSE Num(100)]

CardOf(name, class, skill, description) ==
  [t |-> "object", name |-> name, class |-> class, skill |-> skill,
   description |-> description, stats |-> Stats(GoodStats)]

Payloads ==
  ("cGood" :> Card(Str(<<"A", "l">>), Stats(GoodStats)))
  @@ ("cZero" :> Card(Str(<<"A", "l">>), Stats([GoodStats EXCEPT !["luck"] = Num(0)])))
  @@ ("cOver" :> Card(Str(<<"A", "l">>), Stats([GoodStats EXCEPT !["luck"] = Num(202)])))
  @@ ("cHalf" :> Card(Str(<<"A", "l">>), Stats([GoodStats EXCEPT !["luck"] = Num(7)])))
  @@ ("cNoLuck" :> Card(Str(<<"A", "l">>), Stats([k \in StatNames \ {"luck"} |-> GoodStats[k]])))
  @@ ("cNoStats" :> Card(Str(<<"A", "l">>), Undefined))
  @@ ("cNoName" :> Card(Undefined, Stats(GoodStats)))
  @@ ("cStrStat" :> Card(Str(<<"A", "l">>),
                         Stats([GoodStats EXCEPT !["luck"] = Str(<<"5", "0">>)])))
  @@ ("cBoolStat" :> Card(Str(<<"A", "l">>), Stats([GoodStats EXCEPT !["luck"] = Bool(TRUE)])))
  @@ ("cArrStat" :> Card(Str(<<"A", "l">>), Stats([GoodStats EXCEPT !["luck"] = Arr(100)])))
  @@ ("cNumName" :> Card(Num(14), Stats(GoodStats)))
  @@ ("cObjName" :> Card(JsObject, Stats(GoodStats)))
  @@ ("q4" :> QSet(Str(<<"s", "1">>), QItems(<<1, 2, 3, 4>>)))
  @@ ("q5" :> QSet(Str(<<" ", "s", "2">>), QItems(<<1, 2, 3, 4, 5>>)))
  @@ ("qDup" :> QSet(Str(<<"s", "3">>), QItems(<<1, 1, 2, 3>>)))
  @@ ("q3" :> QSet(Str(<<"s", "1">>), QItems(<<1, 2, 3>>)))
  @@ ("q6" :> QSet(Str(<<"s", "1">>), QItems(<<1, 2, 3, 4, 5, 6>>)))
  @@ ("qId0" :> QSet(Str(<<"s", "1">>), QItems(<<0, 1, 2, 3>>)))
  @@ ("qIdHalf" :> QSet(Str(<<"s", "1">>), <<Q(Num(3), Str(<<"Q">>))>> \o QItems(<<2, 3, 4>>)))
  @@ ("qNoId" :> QSet(Str(<<"s", "1">>), <<Q(Undefined, Str(<<"Q">>))>> \o QItems(<<2, 3, 4>>)))
  @@ ("qNoText" :> QSet(Str(<<"s", "1">>), <<Q(Num(2), Str(<<" ">>))>> \o QItems(<<2, 3, 4>>)))
  @@ ("qBlankSid" :> QSet(Str(<<" ">>), QItems(<<1, 2, 3, 4>>)))
  @@ ("qNoSid" :> QSet(Undefined, QItems(<<1, 2, 3, 4>>)))
  @@ ("qNoArray" :> [t |-> "object", session_id |-> Str(<<"s", "1">>), questions |-> Undefined])
  @@ ("cLong" :> CardOf(Str(Padded(13)), Str(Long(16)), Str(Long(21)), Str(Padded(61))))
  @@ ("cMax" :> CardOf(Str(Long(12)), Str(Long(15)), Str(Padded(20)), Str(Long(60))))
  @@ ("cBlankName" :> CardOf(Str(<<" ">>), Str(Long(16)), Str(Long(21)), Str(Long(61))))
  @@ ("cBlankClass" :> CardOf(Str(Long(13)), Str(<<" ", " ">>), Str(Long(21)), Str(Long(61))))
  @@ ("cBlankSkill" :> CardOf(Str(Long(13)), Str(Long(16)), Str(<<>>), Str(Long(61))))
  @@ ("cBlankText" :> CardOf(Str(Long(13)), Str(Long(16)), Str(Long(21)), Str(<<" ">>)))
  @@ ("qLong" :> QSet(Str(<<"s", "4">>),
                      <<Q(Num(2), Str(Padded(31))), Q(Num(4), Str(Long(30)))>>
                      \o QItems(<<3, 4>>)))

CardKeys ==
  { "cGood", "cZero", "cOver", "cHalf", "cNoLuck", "cNoStats", "cNoName",
    "cStrStat", "cBoolStat", "cArrStat", "cNumName", "cObjName" }

\* Responses with texts above, at and below the maximum lengths.
LongCardKeys == {"cLong", "cMax", "cBlankName", "cBlankClass", "cBlankSkill", "cBlankText"}

LongQuestionKeys == {"qLong", "qNoText"}

QuestionKeys == DOMAIN Payloads \ (CardKeys \cup LongCardKeys \cup {"qLong"})

\* Parsed backend responses of the question prompt.
QuestionResponses == {Payloads[k] : k \in QuestionKeys} \cup {JsNull}

\* Texts that are no JSON object: empty, blank, prose, two objects in a row,
\* and the JSON text null.
OtherTexts(k) ==
  { <<>>, <<" ">>, <<"o", "o", "p", "s">>, <<"{", k, "}", "{", k, "}">>,
    <<"n", "u", "l", "l">> }

CardTexts ==
  {<<"{", k, "}">> : k \in CardKeys}
  \cup {<<"O", "K", ":", " ", "{", "cGood", "}", " ", "!">>}
  \cup OtherTexts("cGood")

QuestionTexts ==
  {<<"{", k, "}">> : k \in QuestionKeys}
  \cup {<<"O", "K", ":", " ", "{", "q4", "}", " ", "!">>}
  \cup OtherTexts("q4")

\* What one callOllamaChat() call gives: it throws (HTTP status not ok, the
\* AbortController timeout, a response without message.content) or returns
\* the content.
Thrown(message) == [kind |-> "error", message |-> message, text |-> <<>>]

Content(text) == [kind |-> "content", message |-> "", text |-> text]

BackendErrors ==
  { Thrown("Ollama error 500"), Thrown("This operation was aborted"),
    Thrown("Invalid Ollama response") }

BackendOutcomes(op) ==
  BackendErrors
  \cup {Content(text) : text \in IF op = "card" THEN CardTexts ELSE QuestionTexts}

NoValue == [ok |-> FALSE, value |-> JsNull]

\* JSON.parse(text): ok is FALSE when it throws
jsonParse(text) ==
  LET t == trim(text)
  IN IF Len(t) = 3 /\ t[1] = "{" /\ t[3] = "}" /\ t[2] \in DOMAIN Payloads
     THEN [ok |-> TRUE, value |-> Payloads[t[2]]]
     ELSE IF t = <<"n", "u", "l", "l">>
     THEN [ok |-> TRUE, value |-> JsNull]
     ELSE NoValue

\* text.indexOf(c), 0 stands for -1
indexOf(text, c) ==
  IF \E i \in 1..Len(text) : text[i] = c
  THEN CHOOSE i \in 1..Len(text) : text[i] = c /\ \A k \in 1..(i - 1) : text[k] # c
  ELSE 0

\* text.lastIndexOf(c), 0 stands for -1
lastIndexOf(text, c) ==
  IF \E i \in 1..Len(text) : text[i] = c
  THEN CHOOSE i \in 1..Len(text) : text[i] = c /\ \A k \in (i + 1)..Len(text) : text[k] # c
  ELSE 0

\* extractJsonObject(text) that gives null for every text
extractJsonObjectNever(text) == NoValue

\* extractJsonObject(text): ok is FALSE for null
extractJsonObject(text) ==
  LET start == indexOf(text, "{")
      end == lastIndexOf(text, "}")
  IN IF text = <<>> THEN NoValue
     ELSE IF start = 0 \/ end = 0 \/ end <= start THEN NoValue
     ELSE jsonParse(SubSeq(text, start, end))

AttemptFailed(message) ==
  [ok |-> FALSE, error |-> message, card |-> NoCard, questions |-> NoQuestions]

\* The try block of generateCardData for one backend outcome.
cardAttempt(outcome) ==
  IF outcome.kind = "error" THEN AttemptFailed(outcome.message)
  ELSE LET rawText == outcome.text
           trimmedRaw == trim(rawText)
           direct == jsonParse(rawText)
           parsed == IF direct.ok THEN direct ELSE extractJsonObject(trimmedRaw)
       IN IF trimmedRaw = <<>> THEN AttemptFailed("JSON parse failed: empty response")
          ELSE IF ~parsed.ok THEN AttemptFailed("JSON parse failed")
          ELSE IF normalizeCardData(parsed.value).null
          THEN AttemptFailed("Schema validation failed")
          ELSE [ok |-> TRUE, error |-> "", card |-> normalizeCardData(parsed.value),
                questions |-> NoQuestions]

\* The try block of generateQuestions for one backend outcome.
questionsAttempt(outcome) ==
  IF outcome.kind = "error" THEN AttemptFailed(outcome.message)
  ELSE LET trimmedRaw == trim(outcome.text)
           direct == jsonParse(trimmedRaw)
           parsed == IF direct.ok THEN direct ELSE extractJsonObject(trimmedRaw)
       IN IF trimmedRaw = <<>> THEN AttemptFailed("Question JSON parse failed: empty response")
          ELSE IF ~parsed.ok THEN AttemptFailed("Question JSON parse failed")
          ELSE IF normalizeQuestions(parsed.value).null
          THEN AttemptFailed("Question schema validation failed")
          ELSE [ok |-> TRUE, error |-> "", card |-> NoCard,
                questions |-> normalizeQuestions(parsed.value)]

\* attempt <= 4 in place of attempt <= 3
loopContinuesToFour(attempt) == attempt <= 4

\* the loop condition attempt <= 3 of generateCardData and generateQuestions
loopContinues(attempt) == attempt <= 3

\* What generateQuestions() can give to POST /api/input/session.
GenerateQuestionsOutcomes == {normalizeQuestions(raw) : raw \in QuestionResponses}

\* Request bodies of POST /api/input/session/:token/answers.
Body(name, answers) == [t |-> "object", name |-> name, answers |-> answers]

AnswerMap(f) == [t |-> "object", map |-> f]

AnswerBodies ==
  { Body(Str(<<"A", "l">>), AnswerMap([id \in 1..5 |-> Str(<<"x">>)])),
    Body(Str(<<" ", "B", "o", " ">>), AnswerMap([id \in 1..5 |-> Str(<<"y", " ">>)])),
    Body(Str(<<" ", " ">>), AnswerMap([id \in 1..5 |-> Str(<<"x">>)])),
    Body(Undefined, AnswerMap([id \in 1..5 |-> Str(<<"x">>)])),
    Body(Str(<<"A", "l">>), Undefined),
    Body(Str(<<"A", "l">>), AnswerMap([id \in {1, 3, 4, 5} |-> Str(<<"x">>)])),
    Body(Str(<<"A", "l">>),
         AnswerMap([id \in 1..5 |-> IF id = 3 THEN Str(<<" ">>) ELSE Str(<<"x">>)])),
    Undefined }

Tokens == 1..MaxSessions

\* Backend responses and request bodies with texts above, at and below the
\* maximum lengths.
LongOutcomes(op) ==
  {Content(<<"{", k, "}">>) : k \in IF op = "card" THEN LongCardKeys ELSE LongQuestionKeys}

LongQuestionsOutcomes == {normalizeQuestions(Payloads[k]) : k \in LongQuestionKeys}

LongNames == {Str(Long(12)), Str(Padded(13)), Str(<<" ", " ">>)}

LongAnswers == {Str(Long(200)), Str(Padded(201)), Str(<<" ">>)}

LongBodies ==
  {Body(name, AnswerMap([id \in 1..4 |-> IF id = 2 THEN answer ELSE Str(<<"x">>)])) :
     name \in LongNames, answer \in LongAnswers}

\* ------------------------------------------------------------ the generator
\* No generateCardData() or generateQuestions() call is in progress.
GenIdle ==
  [op |-> "none", pc |-> "idle", attempt |-> 0, calls |-> 0,
   response |-> Content(<<>>), log |-> <<>>, lastError |-> "", error |-> "",
   card |-> NoCard, questions |-> NoQuestions]

\* ------------------------------------------- /api/generate, /api/questions
\* req.body of POST /api/generate: keywords is a record [t, items] when it is
\* an array
Keywords(items) == [t |-> "array", s |-> <<>>, n |-> 0, items |-> items]

GenerateBody(keywords) == [t |-> "object", keywords |-> keywords]

GenerateBodies ==
  { Undefined,
    GenerateBody(Undefined),
    GenerateBody(Str(<<"f", "o", "x">>)),
    GenerateBody(Keywords(<<>>)),
    GenerateBody(Keywords(<<Str(<<" ">>), Str(<<>>)>>)),
    GenerateBody(Keywords(<<Str(<<" ">>), Str(<<"f", "o", "x", " ">>)>>)),
    GenerateBody(Keywords(<<Str(<<"f", "o", "x">>), Num(14)>>)) }

\* req.body.keywords.map((k) => String(k).trim()).filter(Boolean) where the
\* entries are not trimmed
requestKeywordsUntrimmed(body) ==
  IF body.t # "object" THEN <<>>
  ELSE IF body.keywords.t # "array" THEN <<>>
  ELSE SelectSeq([i \in 1..Len(body.keywords.items) |-> StringOf(body.keywords.items[i])],
                 LAMBDA k : k # <<>>)

\* Array.isArray(req.body?.keywords)
\*   ? req.body.keywords.map((k) => String(k).trim()).filter(Boolean) : []
requestKeywords(body) ==
  IF body.t # "object" THEN <<>>
  ELSE IF body.keywords.t # "array" THEN <<>>
  ELSE SelectSeq([i \in 1..Len(body.keywords.items) |->
                    trim(StringOf(body.keywords.items[i]))],
                 LAMBDA k : k # <<>>)

SessionResponse(op, token, body, code, error, reply) ==
  [op |-> op, token |-> token, body |-> body, code |-> code, error |-> error,
   reply |-> reply]

NoBody == [t |-> "none"]

\* No request is in progress and none was answered yet.  calls is the number
\* of callOllamaChat() calls made for the request, cardData the record that
\* generateCardData returned to the handler.
ApiIdle ==
  [route |-> "none", pc |-> "idle", body |-> NoBody, keywords |-> <<>>, calls |-> 0,
   cardData |-> NoCard, code |-> 0, error |-> ""]

NoReply ==
  [status |-> "", sessionId |-> <<>>, questions |-> <<>>, keywords |-> <<>>,
   expiresAt |-> 0]

\* -------------------------------------------------------------------- Init
Init ==
  /\ printQueue = <<>>
  /\ now = 1
  /\ nextId = 1
  /\ stations = [s \in StationIds |-> Idle]
  /\ events = <<>>
  /\ last = Response("start", NULL, 0, "", 0)
  /\ inputSessions = <<>>
  /\ nextToken = 1
  /\ sessionLast = SessionResponse("start", 0, NoBody, 0, "", NoReply)
  /\ gen = GenIdle
  /\ api = ApiIdle
  /\ printStation = [s \in StationIds |-> NoStation]

\* ---------------------------------------------------------- server handlers
\* Date.now() advances.
Tick ==
  /\ now < MaxTime
  /\ now' = now + 1
  /\ events' = <<>>
  /\ last' = Response("tick", NULL, 0, "", 0)
  /\ UNCHANGED <<printQueue, nextId>>

\* printQueue.unshift(...) in place of printQueue.push(...)
enqueueAtHead(q, jobId, image, meta, t) ==
  <<[id |-> jobId, imageBase64 |-> image, meta |-> meta, createdAt |-> t,
     claimedAt |-> 0, claimedBy |-> NULL, failCount |-> 0]>> \o q

\* enqueuePrintJob(imageBase64, meta) with a cleanupQueue() call in front
enqueuePrintJobAfterGc(q, jobId, image, meta, t) ==
  Append(cleanupQueue(q, t).queue,
         [id |-> jobId, imageBase64 |-> image, meta |-> meta, createdAt |-> t,
          claimedAt |-> 0, claimedBy |-> NULL, failCount |-> 0])

\* enqueuePrintJob(imageBase64, meta)
enqueuePrintJob(q, jobId, image, meta, t) ==
  Append(q, [id |-> jobId, imageBase64 |-> image, meta |-> meta, createdAt |-> t,
             claimedAt |-> 0, claimedBy |-> NULL, failCount |-> 0])

\* app.post("/api/print")
PostPrint(body) ==
  IF body.image = ""
  THEN /\ last' = Response("print", NULL, 0, "", 400)
       /\ events' = <<>>
       /\ UNCHANGED <<printQueue, now, nextId>>
  ELSE /\ nextId <= MaxJobs
       /\ LET meta == IF body.meta = "none" THEN "{}" ELSE body.meta
              q2 == enqueuePrintJob(printQueue, nextId, body.image, meta, now)
          IN /\ printQueue' = q2
             /\ events' = <<newJobEvent(nextId), emitQueueUpdate(q2)>>
       /\ nextId' = nextId + 1
       /\ last' = Response("print", NULL, nextId, "", 200)
       /\ UNCHANGED now

\* app.get("/api/print/next") that calls emitQueueUpdate() before the 204 too
GetPrintNextAlwaysEmits(query) ==
  LET gc == cleanupQueue(printQueue, now)
      clientId == clientIdOf(query)
      i == findUnclaimed(gc.queue)
  IN IF i = 0
     THEN /\ printQueue' = gc.queue
          /\ events' = <<emitQueueUpdate(gc.queue)>>
          /\ last' = Response("next", clientId, 0, "", 204)
          /\ UNCHANGED <<now, nextId>>
     ELSE LET q2 == [gc.queue EXCEPT ![i] = claimJob(@, now, clientId)]
          IN /\ printQueue' = q2
             /\ events' = <<emitQueueUpdate(q2)>>
             /\ last' = Response("next", clientId, gc.queue[i].id, "", 200)
             /\ UNCHANGED <<now, nextId>>

\* app.get("/api/print/next")
GetPrintNext(query) ==
  LET gc == cleanupQueue(printQueue, now)
      ev1 == IF gc.changed THEN <<emitQueueUpdate(gc.queue)>> ELSE <<>>
      clientId == clientIdOf(query)
      i == findUnclaimed(gc.queue)
  IN IF i = 0
     THEN /\ printQueue' = gc.queue
          /\ events' = ev1
          /\ last' = Response("next", clientId, 0, "", 204)
          /\ UNCHANGED <<now, nextId>>
     ELSE LET q2 == [gc.queue EXCEPT ![i] = claimJob(@, now, clientId)]
          IN /\ printQueue' = q2
             /\ events' = ev1 \o <<emitQueueUpdate(q2)>>
             /\ last' = Response("next", clientId, gc.queue[i].id, "", 200)
             /\ UNCHANGED <<now, nextId>>

\* app.post("/api/print/:jobId/done")
PostPrintDone(jobId, status) ==
  LET jobIndex == findIndex(printQueue, jobId)
  IN IF jobIndex = 0
     THEN /\ last' = Response("done", NULL, jobId, status, 404)
          /\ events' = <<>>
          /\ UNCHANGED <<printQueue, now, nextId>>
     ELSE IF status = "printed"
     THEN LET q2 == RemoveAt(printQueue, jobIndex)
          IN /\ printQueue' = q2
             /\ events' = <<emitQueueUpdate(q2)>>
             /\ last' = Response("done", NULL, jobId, status, 200)
             /\ UNCHANGED <<now, nextId>>
     ELSE IF status = "failed"
     THEN LET job == failJob(printQueue[jobIndex])
              q2 == IF failCapReached(job)
                    THEN RemoveAt(printQueue, jobIndex)
                    ELSE [printQueue EXCEPT ![jobIndex] = job]
          IN /\ printQueue' = q2
             /\ events' = <<emitQueueUpdate(q2)>>
             /\ last' = Response("done", NULL, jobId, status, 200)
             /\ UNCHANGED <<now, nextId>>
     ELSE /\ last' = Response("done", NULL, jobId, status, 400)
          /\ events' = <<>>
          /\ UNCHANGED <<printQueue, now, nextId>>

\* setInterval(() => { cleanupQueue(); ... }, 10000); the cleanupInputSessions
\* call of the same callback works on the session map only.
SweepTimer ==
  LET gc == cleanupQueue(printQueue, now)
  IN /\ printQueue' = gc.queue
     /\ events' = IF gc.changed THEN <<emitQueueUpdate(gc.queue)>> ELSE <<>>
     /\ last' = Response("sweep", NULL, 0, "", 0)
     /\ UNCHANGED <<now, nextId>>

\* ----------------------------------------------------- input session routes
\* Date.now() advances; no handler runs
SessionTick ==
  /\ now < MaxTime
  /\ now' = now + 1
  /\ sessionLast' = SessionResponse("tick", 0, NoBody, 0, "", NoReply)
  /\ UNCHANGED <<inputSessions, nextToken, printQueue, nextId, events, last>>

\* app.post("/api/input/session") that stores the session before it awaits
\* generateQuestions(): a failed generation leaves an entry without questions
PostInputSessionStoreFirst(outcome) ==
  /\ nextToken <= MaxSessions
  /\ inputSessions' =
       MapSet(inputSessions, nextToken,
              [token |-> nextToken, createdAt |-> now,
               sessionId |-> outcome.sessionId, questions |-> outcome.questions,
               answeredAt |-> 0, keywords |-> <<>>])
  /\ nextToken' = nextToken + 1
  /\ sessionLast' =
       IF outcome.null
       THEN SessionResponse("create", 0, NoBody, 500, "AI_FAILED", NoReply)
       ELSE SessionResponse("create", nextToken, NoBody, 200, "",
                            [NoReply EXCEPT !.expiresAt = now + INPUT_SESSION_TTL_MS])

\* app.post("/api/input/session"); outcome is what generateQuestions() gives:
\* NoQuestions when it throws, the normalized question set when it returns
PostInputSession(outcome) ==
  IF outcome.null
  THEN /\ sessionLast' = SessionResponse("create", 0, NoBody, 500, "AI_FAILED", NoReply)
       /\ UNCHANGED <<inputSessions, nextToken>>
  ELSE /\ nextToken <= MaxSessions
       /\ inputSessions' =
            MapSet(inputSessions, nextToken,
                   [token |-> nextToken, createdAt |-> now,
                    sessionId |-> outcome.sessionId, questions |-> outcome.questions,
                    answeredAt |-> 0, keywords |-> <<>>])
       /\ nextToken' = nextToken + 1
       /\ sessionLast' =
            SessionResponse("create", nextToken, NoBody, 200, "",
                            [NoReply EXCEPT !.expiresAt = now + INPUT_SESSION_TTL_MS])

\* app.get("/api/input/session/:token")
GetInputSession(token) ==
  LET got == getInputSession(inputSessions, token, now)
  IN /\ inputSessions' = got.store
     /\ UNCHANGED nextToken
     /\ sessionLast' =
          IF ~got.found
          THEN SessionResponse("get", token, NoBody, 404, "NOT_FOUND", NoReply)
          ELSE IF isAnswered(inputSessions[token])
          THEN SessionResponse("get", token, NoBody, 409, "ALREADY_USED", NoReply)
          ELSE SessionResponse("get", token, NoBody, 200, "",
                 [NoReply EXCEPT !.sessionId = inputSessions[token].sessionId,
                                 !.questions = inputSessions[token].questions])

\* app.get("/api/input/session/:token/status") that answers
\* { status: "answered" } without the keywords
GetInputSessionStatusNoKeywords(token) ==
  LET got == getInputSession(inputSessions, token, now)
  IN /\ inputSessions' = got.store
     /\ UNCHANGED nextToken
     /\ sessionLast' =
          IF ~got.found
          THEN SessionResponse("status", token, NoBody, 404, "NOT_FOUND", NoReply)
          ELSE IF isAnswered(inputSessions[token])
          THEN SessionResponse("status", token, NoBody, 200, "",
                 [NoReply EXCEPT !.status = "answered"])
          ELSE SessionResponse("status", token, NoBody, 200, "",
                 [NoReply EXCEPT !.status = "pending"])

\* app.get("/api/input/session/:token/status")
GetInputSessionStatus(token) ==
  LET got == getInputSession(inputSessions, token, now)
  IN /\ inputSessions' = got.store
     /\ UNCHANGED nextToken
     /\ sessionLast' =
          IF ~got.found
          THEN SessionResponse("status", token, NoBody, 404, "NOT_FOUND", NoReply)
          ELSE IF isAnswered(inputSessions[token])
          THEN SessionResponse("status", token, NoBody, 200, "",
                 [NoReply EXCEPT !.status = "answered",
                                 !.keywords = inputSessions[token].keywords])
          ELSE SessionResponse("status", token, NoBody, 200, "",
                 [NoReply EXCEPT !.status = "pending"])

\* app.post("/api/input/session/:token/answers")
PostInputSessionAnswers(token, body) ==
  LET got == getInputSession(inputSessions, token, now)
  IN /\ UNCHANGED nextToken
     /\ IF ~got.found
        THEN /\ inputSessions' = got.store
             /\ sessionLast' = SessionResponse("answers", token, body, 404, "NOT_FOUND", NoReply)
        ELSE IF isAnswered(inputSessions[token])
        THEN /\ inputSessions' = got.store
             /\ sessionLast' = SessionResponse("answers", token, body, 409, "ALREADY_USED", NoReply)
        ELSE LET session == inputSessions[token]
                 normalized == normalizeInputAnswers(session, body)
             IN IF normalized.null
                THEN /\ inputSessions' = got.store
                     /\ sessionLast' = SessionResponse("answers", token, body, 400, "INVALID_INPUT", NoReply)
                ELSE IF keywordsOf(session, normalized) = <<>>
                THEN /\ inputSessions' = got.store
                     /\ sessionLast' = SessionResponse("answers", token, body, 400, "INVALID_INPUT", NoReply)
                ELSE /\ inputSessions' =
                          [inputSessions EXCEPT ![token] =
                             [@ EXCEPT !.answeredAt = now,
                                       !.keywords = keywordsOf(session, normalized)]]
                     /\ sessionLast' = SessionResponse("answers", token, body, 200, "", NoReply)

\* setInterval(() => { cleanupQueue(); ...; cleanupInputSessions(); }, 10000)
SessionSweepTimer ==
  /\ SweepTimer
  /\ inputSessions' = cleanupInputSessions(inputSessions, now)
  /\ sessionLast' = SessionResponse("sweep", 0, NoBody, 0, "", NoReply)
  /\ UNCHANGED nextToken

\* ------------------------------------------------------------ the generator
\* generateCardData(keywords) or generateQuestions() is called
GenStart(op) ==
  /\ gen.pc = "idle"
  /\ gen' = [GenIdle EXCEPT !.op = op, !.pc = "running", !.attempt = 1]

\* One iteration of the for loop: the backend call with its outcome, the try
\* block, the catch block; and the throw after the loop when this was the
\* last iteration.  log holds the messages of the log lines of the catch
\* block.
GenAttempt(outcome) ==
  /\ gen.pc = "running"
  /\ loopContinues(gen.attempt)
  /\ LET r == IF gen.op = "card" THEN cardAttempt(outcome) ELSE questionsAttempt(outcome)
     IN IF r.ok
        THEN gen' = [gen EXCEPT !.calls = @ + 1, !.response = outcome,
                                !.pc = "returned", !.card = r.card,
                                !.questions = r.questions]
        ELSE gen' = [gen EXCEPT !.calls = @ + 1, !.response = outcome,
                                !.log = Append(@, r.error),
                                !.lastError = r.error,
                                !.attempt = @ + 1,
                                !.pc = IF loopContinues(gen.attempt + 1)
                                       THEN "running" ELSE "thrown",
                                !.error = IF loopContinues(gen.attempt + 1)
                                          THEN "" ELSE r.error]

\* The caller has the result or the error; the next call can start.
GenFinish ==
  /\ gen.pc \in {"returned", "thrown"}
  /\ gen' = GenIdle

\* app.post("/api/generate") up to its first await: the 400 response, or the
\* call of generateCardData(keywords)
PostGenerate(body) ==
  /\ api.pc = "idle"
  /\ LET keywords == requestKeywords(body)
     IN IF Len(keywords) = 0
        THEN /\ api' = [ApiIdle EXCEPT !.route = "generate", !.body = body,
                                       !.code = 400, !.error = "INVALID_INPUT"]
             /\ UNCHANGED gen
        ELSE /\ api' = [ApiIdle EXCEPT !.route = "generate", !.body = body,
                                       !.keywords = keywords, !.pc = "generating"]
             /\ GenStart("card")

\* app.get("/api/questions") up to its await: the call of generateQuestions()
GetQuestions ==
  /\ api.pc = "idle"
  /\ api' = [ApiIdle EXCEPT !.route = "questions", !.pc = "generating"]
  /\ GenStart("questions")

\* One iteration of the generator loop on behalf of the request.
ApiAttempt(outcome) ==
  /\ api.pc = "generating"
  /\ GenAttempt(outcome)
  /\ api' = [api EXCEPT !.calls = @ + 1]

\* The handler resumes after await generateCardData() or await
\* generateQuestions(): the catch block answers 500 AI_FAILED when the call
\* threw; /api/questions answers with the payload; /api/generate goes on to
\* await buildCardImageBase64(cardData).
ApiResume ==
  /\ api.pc = "generating"
  /\ GenFinish
  /\ api' =
       IF gen.pc = "thrown"
       THEN [api EXCEPT !.pc = "idle", !.code = 500, !.error = "AI_FAILED"]
       ELSE IF api.route = "questions"
       THEN [api EXCEPT !.pc = "idle", !.code = 200]
       ELSE [api EXCEPT !.pc = "rendering", !.cardData = gen.card]

\* The handler resumes after await buildCardImageBase64(cardData): sharp
\* resolved with the PNG (rendered) or rejected, and a rejection is caught by
\* the same catch block.
GenerateRendered(rendered) ==
  /\ api.pc = "rendering"
  /\ api' = IF rendered
            THEN [api EXCEPT !.pc = "idle", !.code = 200]
            ELSE [api EXCEPT !.pc = "idle", !.code = 500, !.error = "AI_FAILED"]
  /\ UNCHANGED gen

NextApi ==
  \/ \E body \in GenerateBodies :
       PostGenerate(body) /\ UNCHANGED <<queueVars, stations, sessionVars, printStation>>
  \/ GetQuestions /\ UNCHANGED <<queueVars, stations, sessionVars, printStation>>
  \/ \E outcome \in BackendOutcomes(gen.op) :
       ApiAttempt(outcome) /\ UNCHANGED <<queueVars, stations, sessionVars, printStation>>
  \/ ApiResume /\ UNCHANGED <<queueVars, stations, sessionVars, printStation>>
  \/ \E rendered \in BOOLEAN :
       GenerateRendered(rendered) /\ UNCHANGED <<queueVars, stations, sessionVars, printStation>>

SpecApi == Init /\ [][NextApi]_vars

NextGen ==
  \/ \E op \in {"card", "questions"} :
       GenStart(op) /\ UNCHANGED <<queueVars, stations, sessionVars, api, printStation>>
  \/ \E outcome \in BackendOutcomes(gen.op) :
       GenAttempt(outcome) /\ UNCHANGED <<queueVars, stations, sessionVars, api, printStation>>
  \/ GenFinish /\ UNCHANGED <<queueVars, stations, sessionVars, api, printStation>>

SpecGen == Init /\ [][NextGen]_vars

\* The server under arbitrary requests.
Next ==
  \/ Tick /\ UNCHANGED <<stations, sessionVars, gen, api, printStation>>
  \/ \E body \in PrintBodies : PostPrint(body) /\ UNCHANGED <<stations, sessionVars, gen, api, printStation>>
  \/ \E query \in ClientQueries : GetPrintNext(query) /\ UNCHANGED <<stations, sessionVars, gen, api, printStation>>
  \/ \E jobId \in JobIds, status \in Statuses : PostPrintDone(jobId, status) /\ UNCHANGED <<stations, sessionVars, gen, api, printStation>>
  \/ SweepTimer /\ UNCHANGED <<stations, sessionVars, gen, api, printStation>>

Spec == Init /\ [][Next]_vars

\* ------------------------------------------------- the server with its timer
\* app.post("/api/print") while the clock, which stops at MaxTime, can still
\* run past the job's PRINT_JOB_TTL_MS; at most MaxLiveJobs jobs are enqueued
PostPrintInTime(body) ==
  /\ now + PRINT_JOB_TTL_MS < MaxTime
  /\ nextId <= MaxLiveJobs
  /\ PostPrint(body)

NextLive ==
  \/ Tick /\ UNCHANGED <<stations, sessionVars, gen, api, printStation>>
  \/ \E body \in PrintBodies : PostPrintInTime(body) /\ UNCHANGED <<stations, sessionVars, gen, api, printStation>>
  \/ \E query \in ClientQueries : GetPrintNext(query) /\ UNCHANGED <<stations, sessionVars, gen, api, printStation>>
  \/ \E jobId \in JobIds, status \in Statuses : PostPrintDone(jobId, status) /\ UNCHANGED <<stations, sessionVars, gen, api, printStation>>
  \/ SweepTimer /\ UNCHANGED <<stations, sessionVars, gen, api, printStation>>

\* Time passes and the setInterval callback keeps firing; requests come or
\* do not come.
SpecLive ==
  /\ Init
  /\ [][NextLive]_vars
  /\ WF_vars(Tick /\ UNCHANGED <<stations, sessionVars, gen, api, printStation>>)
  /\ WF_vars(SweepTimer /\ UNCHANGED <<stations, sessionVars, gen, api, printStation>>)

\* ------------------------------------------------------------ print stations
\* claimNext of PrintStation.tsx: if (busy) return; fetch /api/print/next
StationClaim(s) ==
  /\ stations[s] = Idle
  /\ GetPrintNext(s)
  /\ LET st == Unlive(stations, Released(printQueue, cleanupQueue(printQueue, now).queue))
     IN stations' = IF last'.code = 200
                    THEN [st EXCEPT ![s] = [jobId |-> last'.jobId, live |-> TRUE]]
                    ELSE st

\* sendToAgent of PrintStation.tsx: reportDone(job.jobId, ok), then busy = false
StationReport(s, ok) ==
  /\ stations[s] # Idle
  /\ PostPrintDone(stations[s].jobId, IF ok THEN "printed" ELSE "failed")
  /\ stations' = [Unlive(stations, Released(printQueue, printQueue')) EXCEPT ![s] = Idle]

StationSweep ==
  /\ SweepTimer
  /\ stations' = Unlive(stations, Released(printQueue, printQueue'))

\* The server with the kiosk and the print stations as its only clients.
NextStations ==
  \/ Tick /\ UNCHANGED <<stations, sessionVars, gen, api, printStation>>
  \/ \E body \in PrintBodies : PostPrint(body) /\ UNCHANGED <<stations, sessionVars, gen, api, printStation>>
  \/ \E s \in StationIds : StationClaim(s) /\ UNCHANGED <<sessionVars, gen, api, printStation>>
  \/ \E s \in StationIds, ok \in BOOLEAN : StationReport(s, ok) /\ UNCHANGED <<sessionVars, gen, api, printStation>>
  \/ StationSweep /\ UNCHANGED <<sessionVars, gen, api, printStation>>

SpecStations == Init /\ [][NextStations]_vars

\* ------------------------------------------- the PrintStation component
\* A claimNext call that has passed if (busy) return and sent its request.
\* pc: "fetch" the GET /api/print/next request is on its way; "agent" the job
\* was received, sendToAgent waits for the print agent; "report" a reportDone
\* request with `status` is on its way, inTry says that its await sits in the
\* try block of sendToAgent; "finally" the finally block is about to run.
\* agentOk: the agent answered the print request with success.  sent: the
\* statuses of the reports sent for the job so far.
NewCall ==
  [pc |-> "fetch", jobId |-> 0, status |-> "", inTry |-> FALSE, agentOk |-> FALSE,
   sent |-> <<>>]

\* claimNext() up to its first await, called through a socket or interval
\* handler: if (busy) return reads the busy of the render that created the
\* handler's claimNext; setBusy(true) takes effect at the next render.
claimNext(st) ==
  IF st.claimNextBusy THEN st
  ELSE [st EXCEPT !.busy = TRUE, !.calls = Append(@, NewCall)]

\* What the print agent does with a job.
AgentOutcomes == {"offline", "rejected", "exception", "printed"}

\* sendToAgent(job) up to its reportDone call
sendToAgent(call, outcome) ==
  CASE outcome = "offline" ->
         [call EXCEPT !.pc = "report", !.status = "failed", !.inTry = FALSE]
    [] outcome = "rejected" ->
         [call EXCEPT !.pc = "report", !.status = "failed", !.inTry = TRUE]
    [] outcome = "exception" ->
         [call EXCEPT !.pc = "report", !.status = "failed", !.inTry = FALSE]
    [] outcome = "printed" ->
         [call EXCEPT !.pc = "report", !.status = "printed", !.inTry = TRUE,
                      !.agentOk = TRUE]

\* The call after the response `code` to its reportDone request: apiFetch
\* throws unless the response is ok; a throw inside the try block of
\* sendToAgent is caught there and answered with reportDone(jobId, false),
\* any other throw ends the call.
afterReport(call, code) ==
  LET reported == [call EXCEPT !.sent = Append(@, call.status)]
  IN IF code = 200 THEN [reported EXCEPT !.pc = "finally"]
     ELSE IF call.inTry
     THEN [reported EXCEPT !.pc = "report", !.status = "failed", !.inTry = FALSE]
     ELSE [reported EXCEPT !.pc = "finally"]

\* io.emit: the socket of every open station page receives the n events.
Broadcast(ps, n) ==
  [s \in StationIds |-> IF ps[s].mounted THEN [ps[s] EXCEPT !.inbox = @ + n] ELSE ps[s]]

InboxRoom(n) ==
  \A s \in StationIds : printStation[s].mounted => printStation[s].inbox + n <= MaxInbox

\* A browser opens the PrintStation page.
StationMount(s) ==
  /\ ~printStation[s].mounted
  /\ printStation' = [printStation EXCEPT ![s] = Mounted]
  /\ UNCHANGED <<queueVars, stations, sessionVars, gen, api>>

\* socket.on("print:queue_update" | "print:new_job", ...): the handler runs
StationEvent(s) ==
  /\ printStation[s].inbox > 0
  /\ LET st == [printStation[s] EXCEPT !.inbox = @ - 1]
     IN /\ Len(claimNext(st).calls) <= MaxCalls
        /\ printStation' = [printStation EXCEPT ![s] = claimNext(st)]
  /\ UNCHANGED <<queueVars, stations, sessionVars, gen, api>>

\* setInterval(() => { claimNext(); }, 7000) fires; the period is far longer
\* than a render, so it fires when no render is pending.
StationInterval(s) ==
  /\ printStation[s].mounted
  /\ printStation[s].claimNextBusy = printStation[s].busy
  /\ Len(claimNext(printStation[s]).calls) <= MaxCalls
  /\ printStation' = [printStation EXCEPT ![s] = claimNext(@)]
  /\ UNCHANGED <<queueVars, stations, sessionVars, gen, api>>

\* React renders the component after setBusy and runs the effects again: the
\* socket and interval handlers now call the claimNext of this render, on a
\* new socket (the cleanup disconnects the old one, whose events are lost).
StationRender(s) ==
  /\ printStation[s].claimNextBusy # printStation[s].busy
  /\ printStation' = [printStation EXCEPT ![s].claimNextBusy = printStation[s].busy,
                                          ![s].inbox = 0]
  /\ UNCHANGED <<queueVars, stations, sessionVars, gen, api>>

\* The server answers the GET /api/print/next request of call i of station s.
StationFetch(s, i) ==
  /\ i \in 1..Len(printStation[s].calls)
  /\ printStation[s].calls[i].pc = "fetch"
  /\ GetPrintNext(s)
  /\ InboxRoom(Len(events'))
  /\ printStation' =
       Broadcast([printStation EXCEPT ![s].calls[i] =
                    IF last'.code = 200
                    THEN [@ EXCEPT !.pc = "agent", !.jobId = last'.jobId]
                    ELSE [@ EXCEPT !.pc = "finally"]],
                 Len(events'))
  /\ UNCHANGED <<stations, sessionVars, gen, api>>

\* The print agent is done with the job of call i of station s.
StationAgent(s, i, outcome) ==
  /\ i \in 1..Len(printStation[s].calls)
  /\ printStation[s].calls[i].pc = "agent"
  /\ printStation' = [printStation EXCEPT ![s].calls[i] = sendToAgent(@, outcome)]
  /\ UNCHANGED <<queueVars, stations, sessionVars, gen, api>>

\* The server answers the reportDone request of call i of station s.
StationReportDone(s, i) ==
  /\ i \in 1..Len(printStation[s].calls)
  /\ printStation[s].calls[i].pc = "report"
  /\ PostPrintDone(printStation[s].calls[i].jobId, printStation[s].calls[i].status)
  /\ InboxRoom(Len(events'))
  /\ printStation' =
       Broadcast([printStation EXCEPT ![s].calls[i] = afterReport(@, last'.code)],
                 Len(events'))
  /\ UNCHANGED <<stations, sessionVars, gen, api>>

\* finally { setBusy(false); } of call i of station s
StationFinally(s, i) ==
  /\ i \in 1..Len(printStation[s].calls)
  /\ printStation[s].calls[i].pc = "finally"
  /\ printStation' = [printStation EXCEPT ![s].busy = FALSE,
                                          ![s].calls = RemoveAt(@, i)]
  /\ UNCHANGED <<queueVars, stations, sessionVars, gen, api>>

\* The kiosk enqueues a job; the stations receive the two events.
KioskPrint(body) ==
  /\ PostPrint(body)
  /\ InboxRoom(Len(events'))
  /\ printStation' = Broadcast(printStation, Len(events'))
  /\ UNCHANGED <<stations, sessionVars, gen, api>>

\* The setInterval sweep of the server; the stations receive its event.
ServerSweep ==
  /\ SweepTimer
  /\ InboxRoom(Len(events'))
  /\ printStation' = Broadcast(printStation, Len(events'))
  /\ UNCHANGED <<stations, sessionVars, gen, api>>

\* The server with the kiosk and one PrintStation page as its clients.
NextPrintStation ==
  \/ Tick /\ UNCHANGED <<stations, sessionVars, gen, api, printStation>>
  \/ \E body \in PrintBodies : KioskPrint(body)
  \/ ServerSweep
  \/ StationMount("stationA")
  \/ StationEvent("stationA")
  \/ StationInterval("stationA")
  \/ StationRender("stationA")
  \/ \E i \in 1..MaxCalls : StationFetch("stationA", i)
  \/ \E i \in 1..MaxCalls, outcome \in AgentOutcomes : StationAgent("stationA", i, outcome)
  \/ \E i \in 1..MaxCalls : StationReportDone("stationA", i)
  \/ \E i \in 1..MaxCalls : StationFinally("stationA", i)

SpecPrintStation == Init /\ [][NextPrintStation]_vars

\* The notify-then-poll loop of the stations: the kiosk enqueues, time passes
\* and the server sweeps, each a bounded number of times; no print agent
\* answers and no interval fires, so no report is sent and the stations call
\* claimNext on socket events only.
NextQuiesce ==
  \/ \E body \in PrintBodies : KioskPrint(body)
  \/ \E s \in StationIds : StationMount(s)
  \/ \E s \in StationIds : StationEvent(s)
  \/ \E s \in StationIds : StationRender(s)
  \/ \E s \in StationIds, i \in 1..MaxCalls : StationFetch(s, i)
  \/ \E s \in StationIds, i \in 1..MaxCalls : StationFinally(s, i)

\* The browser runs every handler and render that is due and the server
\* answers every request; the kiosk, the clock and the sweep may stop.
SpecQuiesce ==
  /\ Init
  /\ [][NextQuiesce]_vars
  /\ \A s \in StationIds :
       /\ WF_vars(StationEvent(s))
       /\ WF_vars(StationRender(s))
       /\ \A i \in 1..MaxCalls :
            /\ WF_vars(StationFetch(s, i))
            /\ WF_vars(StationFinally(s, i))

\* ------------------------------------------------- the input session store
\* The server under the requests of the input pages, with its clock and timer.
NextSessions ==
  \/ SessionTick /\ UNCHANGED <<stations, gen, api, printStation>>
  \/ \E outcome \in GenerateQuestionsOutcomes :
       PostInputSession(outcome) /\ UNCHANGED <<queueVars, stations, gen, api, printStation>>
  \/ \E token \in Tokens : GetInputSession(token) /\ UNCHANGED <<queueVars, stations, gen, api, printStation>>
  \/ \E token \in Tokens :
       GetInputSessionStatus(token) /\ UNCHANGED <<queueVars, stations, gen, api, printStation>>
  \/ \E token \in Tokens, body \in AnswerBodies :
       PostInputSessionAnswers(token, body) /\ UNCHANGED <<queueVars, stations, gen, api, printStation>>
  \/ SessionSweepTimer /\ UNCHANGED <<stations, gen, api, printStation>>

SpecSessions == Init /\ [][NextSessions]_vars

\* app.post("/api/input/session") while the clock, which stops at MaxTime,
\* can still run past the session's INPUT_SESSION_TTL_MS
PostInputSessionInTime(outcome) ==
  /\ now + INPUT_SESSION_TTL_MS < MaxTime
  /\ PostInputSession(outcome)

NextSessionsLive ==
  \/ SessionTick /\ UNCHANGED <<stations, gen, api, printStation>>
  \/ \E outcome \in GenerateQuestionsOutcomes :
       PostInputSessionInTime(outcome) /\ UNCHANGED <<queueVars, stations, gen, api, printStation>>
  \/ \E token \in Tokens : GetInputSession(token) /\ UNCHANGED <<queueVars, stations, gen, api, printStation>>
  \/ \E token \in Tokens :
       GetInputSessionStatus(token) /\ UNCHANGED <<queueVars, stations, gen, api, printStation>>
  \/ \E token \in Tokens, body \in AnswerBodies :
       PostInputSessionAnswers(token, body) /\ UNCHANGED <<queueVars, stations, gen, api, printStation>>
  \/ SessionSweepTimer /\ UNCHANGED <<stations, gen, api, printStation>>

\* Time passes and the setInterval callback keeps firing; the input pages
\* send their requests or do not.
SpecSessionsLive ==
  /\ Init
  /\ [][NextSessionsLive]_vars
  /\ WF_vars(SessionTick /\ UNCHANGED <<stations, gen, api, printStation>>)
  /\ WF_vars(SessionSweepTimer /\ UNCHANGED <<stations, gen, api, printStation>>)

\* The generator and the answer route under responses and bodies with texts
\* above, at and below the maximum lengths.
NextTexts ==
  \/ \E op \in {"card", "questions"} :
       GenStart(op) /\ UNCHANGED <<queueVars, stations, sessionVars, api, printStation>>
  \/ \E outcome \in LongOutcomes(gen.op) :
       GenAttempt(outcome) /\ UNCHANGED <<queueVars, stations, sessionVars, api, printStation>>
  \/ GenFinish /\ UNCHANGED <<queueVars, stations, sessionVars, api, printStation>>
  \/ \E outcome \in LongQuestionsOutcomes :
       PostInputSession(outcome) /\ UNCHANGED <<queueVars, stations, gen, api, printStation>>
  \/ \E token \in Tokens, body \in LongBodies :
       PostInputSessionAnswers(token, body) /\ UNCHANGED <<queueVars, stations, gen, api, printStation>>

SpecTexts == Init /\ [][NextTexts]_vars

\* What the backend does to a call that runs while other requests arrive:
\* it answers with a valid object, or not before the AbortController timeout.
AsyncOutcomes(op) ==
  { Thrown("This operation was aborted"),
    Content(<<"{", IF op = "card" THEN "cGood" ELSE "q4", "}">>) }

\* Queue requests that are served only while no generator call is suspended.
QueueRequestsWhenIdle ==
  /\ gen.pc = "idle"
  /\ \/ \E query \in ClientQueries :
          GetPrintNext(query) /\ UNCHANGED <<stations, sessionVars, gen, api, printStation>>
     \/ \E body \in PrintBodies :
          PostPrint(body) /\ UNCHANGED <<stations, sessionVars, gen, api, printStation>>

\* The queue handlers run as the kiosk's and the stations' requests arrive.
QueueRequests ==
  \/ \E query \in ClientQueries :
       GetPrintNext(query) /\ UNCHANGED <<stations, sessionVars, gen, api, printStation>>
  \/ \E body \in PrintBodies :
       PostPrint(body) /\ UNCHANGED <<stations, sessionVars, gen, api, printStation>>

\* The session handlers run as the input pages' requests arrive.
SessionRequests ==
  \/ \E token \in Tokens :
       GetInputSessionStatus(token) /\ UNCHANGED <<queueVars, stations, gen, api, printStation>>
  \/ \E outcome \in GenerateQuestionsOutcomes :
       PostInputSession(outcome) /\ UNCHANGED <<queueVars, stations, gen, api, printStation>>

\* The event loop: between two awaits of a generator call the queue and
\* session handlers run as requests arrive.
NextAsync ==
  \/ \E op \in {"card", "questions"} :
       GenStart(op) /\ UNCHANGED <<queueVars, stations, sessionVars, api, printStation>>
  \/ \E outcome \in AsyncOutcomes(gen.op) :
       GenAttempt(outcome) /\ UNCHANGED <<queueVars, stations, sessionVars, api, printStation>>
  \/ GenFinish /\ UNCHANGED <<queueVars, stations, sessionVars, api, printStation>>
  \/ QueueRequests
  \/ SessionRequests

SpecAsync == Init /\ [][NextAsync]_vars

\* ==================================================================== claims
JobOf(q, id) == q[CHOOSE i \in 1..Len(q) : q[i].id = id]

HasActiveClaim(job) == job.claimedBy # NULL

\* the claim of `job` is younger than the claim TTL at time t
ClaimInForce(job, t) == job.claimedAt # 0 /\ t - job.claimedAt <= PRINT_CLAIM_TTL_MS

\* C1: GET /api/print/next never returns a job that holds an active claim:
\* the job it returns was unclaimed, or its claim had outlived the claim TTL
\* (and is released by the GC pass of the same request); and when every job
\* in the queue holds a claim within the claim TTL, the request is answered
\* 204 (no job) and every job that stays in the queue keeps its claim.
C1_NoDuplicateDispatch ==
  [][ last'.op = "next" =>
        /\ last'.code = 200 =>
             /\ last'.jobId \in Ids(printQueue)
             /\ ~ClaimInForce(JobOf(printQueue, last'.jobId), now)
        /\ (\A i \in 1..Len(printQueue) : ClaimInForce(printQueue[i], now)) =>
             /\ last'.code = 204
             /\ \A i \in 1..Len(printQueue) :
                  printQueue[i].id \in Ids(printQueue') =>
                    JobOf(printQueue', printQueue[i].id) = printQueue[i]
    ]_vars

\* Scenario B: one job, claimed by one station; the other station asked for a
\* job within the claim TTL and got none.
C1_Witness ==
  /\ last.op = "next" /\ last.code = 204
  /\ Len(printQueue) = 1
  /\ ClaimInForce(printQueue[1], now)
  /\ printQueue[1].claimedBy \in StationIds \ {last.client}
  /\ last.client \in StationIds

\* C2 as stated: at most one station is between receiving a job and
\* reporting its outcome.
C2_OneStationBetweenReceiptAndReport ==
  \A j \in JobIds : Cardinality({s \in StationIds : stations[s].jobId = j}) <= 1

\* C2, amended: among the stations that received a job and have not yet
\* reported it, at most one still has its claim in force (not released by
\* claim expiry in a GC pass, by a failed report or by removal of the job),
\* and that station is the claimant recorded in the queue.
C2_OneLiveClaimant ==
  \A j \in JobIds :
    /\ Cardinality({s \in StationIds : stations[s].jobId = j /\ stations[s].live}) <= 1
    /\ \A s \in StationIds :
         stations[s].jobId = j /\ stations[s].live =>
           /\ j \in Ids(printQueue)
           /\ JobOf(printQueue, j).claimedBy = s

\* Two stations work on the same job; one of them lost its claim.
C2_Witness ==
  \E s, t \in StationIds :
    /\ s # t
    /\ stations[s].jobId # 0
    /\ stations[s].jobId = stations[t].jobId
    /\ stations[s].live /\ ~stations[t].live

\* C3: pendingCount() is the number of jobs in the queue that no claimant
\* holds, in every reachable state.
C3_PendingCountIsUnclaimed ==
  pendingCount(printQueue) =
    Cardinality({i \in 1..Len(printQueue) : ~HasActiveClaim(printQueue[i])})

\* A claimed and an unclaimed job, after a failed report.
C3_Witness ==
  /\ Len(printQueue) = 2
  /\ pendingCount(printQueue) = 1
  /\ \E i \in 1..2 : printQueue[i].failCount > 0

\* C4: jobs are served oldest-unclaimed-first.  The queue keeps the jobs in
\* the order of their enqueue (ids are issued in that order), a released job
\* stays where it was, and the job a claim request returns is claimed by the
\* caller at the current time while every job ahead of it in the queue holds
\* a claim; a request answered 204 leaves no unclaimed job.
C4_OldestUnclaimedFirst ==
  /\ \A i, k \in 1..Len(printQueue) :
       i < k => /\ printQueue[i].id < printQueue[k].id
                /\ printQueue[i].createdAt <= printQueue[k].createdAt
  /\ last.op = "next" /\ last.code = 200 =>
       /\ last.jobId \in Ids(printQueue)
       /\ JobOf(printQueue, last.jobId).claimedAt = now
       /\ JobOf(printQueue, last.jobId).claimedBy = last.client
       /\ \A i \in 1..Len(printQueue) :
            printQueue[i].id < last.jobId => printQueue[i].claimedAt # 0
  /\ last.op = "next" /\ last.code = 204 =>
       \A i \in 1..Len(printQueue) : printQueue[i].claimedAt # 0

\* Job 1 was released by a failed report and is served again ahead of job 2,
\* which waits unclaimed behind it.
C4_Witness ==
  /\ last.op = "next" /\ last.code = 200 /\ last.jobId = 1
  /\ Len(printQueue) = 2
  /\ printQueue[1].failCount > 0
  /\ printQueue[2].claimedAt = 0

\* C5: a printed report for a job in the queue is answered ok and removes
\* exactly that job, whatever its claim state; a report (of any status) for an
\* id that is not in the queue is answered NOT_FOUND and changes nothing; and
\* an id that has left the queue never comes back, so a claim request never
\* returns it again.
C5_PrintedRemoves ==
  [][ /\ (last'.op = "done" /\ last'.status = "printed"
            /\ last'.jobId \in Ids(printQueue)) =>
           /\ last'.code = 200
           /\ printQueue' = SelectSeq(printQueue, LAMBDA job : job.id # last'.jobId)
           /\ Len(printQueue') = Len(printQueue) - 1
      /\ (last'.op = "done" /\ last'.jobId \notin Ids(printQueue)) =>
           /\ last'.code = 404
           /\ printQueue' = printQueue
      /\ \A id \in 1..(nextId - 1) :
           id \notin Ids(printQueue) => id \notin Ids(printQueue')
      /\ last'.op = "next" /\ last'.code = 200 =>
           /\ last'.jobId \in Ids(printQueue)
           /\ last'.jobId \in Ids(printQueue')
    ]_vars

\* Scenario A: the only job ever enqueued was reported printed; the queue is
\* empty.
C5_Witness ==
  /\ last.op = "done" /\ last.status = "printed" /\ last.code = 200 /\ last.jobId = 1
  /\ nextId = 2
  /\ printQueue = <<>>

\* C6: a failed report for a job in the queue whose failCount is below
\* MAX_FAILS - 1 is answered ok, adds exactly one to the job's failCount,
\* clears its claim and changes nothing else; the job is then what a claim
\* request at that moment selects, unless an older unclaimed job is ahead of
\* it or its age is beyond the job TTL.
C6_FailedReleases ==
  [][ ( /\ last'.op = "done" /\ last'.status = "failed"
        /\ last'.jobId \in Ids(printQueue)
        /\ JobOf(printQueue, last'.jobId).failCount < MAX_FAILS - 1 ) =>
      LET i == CHOOSE k \in 1..Len(printQueue) : printQueue[k].id = last'.jobId
          job == printQueue[i]
          gc == cleanupQueue(printQueue', now').queue
      IN /\ last'.code = 200
         /\ printQueue' = [printQueue EXCEPT ![i] =
                             [job EXCEPT !.failCount = job.failCount + 1,
                                         !.claimedAt = 0, !.claimedBy = NULL]]
         /\ ( /\ now' - job.createdAt <= PRINT_JOB_TTL_MS
              /\ \A k \in 1..(i - 1) : printQueue'[k].claimedAt # 0
                                       /\ ~claimExpired(printQueue'[k], now') ) =>
              /\ findUnclaimed(gc) # 0
              /\ gc[findUnclaimed(gc)].id = job.id
    ]_vars

\* The second failure of a job: it stays in the queue, unclaimed.
C6_Witness ==
  /\ last.op = "done" /\ last.status = "failed" /\ last.code = 200
  /\ last.jobId \in Ids(printQueue)
  /\ JobOf(printQueue, last.jobId).failCount = MAX_FAILS - 1
  /\ JobOf(printQueue, last.jobId).claimedAt = 0

\* C7: every job in the queue has failCount in 0..MAX_FAILS-1; a failed
\* report answered ok either adds one to the failCount of a job that stays
\* below MAX_FAILS, or it is the report that brings the count to MAX_FAILS and
\* the job is gone from the queue right after it, for good.  Hence at most
\* MAX_FAILS failed reports per job are ever answered ok.
C7_BoundedRetry ==
  [][ /\ \A i \in 1..Len(printQueue') : printQueue'[i].failCount \in 0..(MAX_FAILS - 1)
      /\ (last'.op = "done" /\ last'.status = "failed" /\ last'.code = 200) =>
           /\ last'.jobId \in Ids(printQueue)
           /\ LET before == JobOf(printQueue, last'.jobId).failCount
              IN IF before + 1 = MAX_FAILS
                 THEN last'.jobId \notin Ids(printQueue')
                 ELSE /\ last'.jobId \in Ids(printQueue')
                      /\ JobOf(printQueue', last'.jobId).failCount = before + 1
      /\ \A id \in 1..(nextId - 1) :
           id \notin Ids(printQueue) =>
             /\ id \notin Ids(printQueue')
             /\ last'.op = "done" /\ last'.jobId = id => last'.code = 404
    ]_vars

\* Scenario C: the only job ever enqueued is gone right after a failed report
\* that was answered ok.
C7_Witness ==
  /\ last.op = "done" /\ last.status = "failed" /\ last.code = 200 /\ last.jobId = 1
  /\ nextId = 2
  /\ printQueue = <<>>

\* a GC pass ran in the step: the periodic sweep or the pre-claim pass
GcRan(l) == l.op \in {"sweep", "next"}

\* C8: after a GC pass at time `now` no job older than the job TTL is left in
\* the queue, claimed or not; and a GC pass removes no job whose age is at
\* most the job TTL and whose failCount is below MAX_FAILS.
C8_TtlEviction ==
  [][ GcRan(last') =>
        /\ \A i \in 1..Len(printQueue') :
             now' - printQueue'[i].createdAt <= PRINT_JOB_TTL_MS
        /\ \A i \in 1..Len(printQueue) :
             ( /\ now - printQueue[i].createdAt <= PRINT_JOB_TTL_MS
               /\ printQueue[i].failCount < MAX_FAILS ) =>
               printQueue[i].id \in Ids(printQueue')
    ]_vars

\* The sweep changed the queue and left one job, which is still claimed: the
\* change was the eviction of another job.
C8_Witness ==
  /\ last.op = "sweep"
  /\ events # <<>>
  /\ Len(printQueue) = 1
  /\ printQueue[1].claimedAt # 0

\* C9: the periodic sweep releases the claim of every job that stays in the
\* queue and whose claim is older than the claim TTL, leaving its failCount,
\* createdAt, payload and place in the queue as they were, and such a job is
\* what a claim request at that moment selects unless an older unclaimed job
\* is ahead of it; no GC pass (periodic or pre-claim) touches a job whose
\* claim age is at most the claim TTL, other than evicting it.
C9_ClaimLeaseExpiry ==
  [][ GcRan(last') =>
        LET stays(job) == /\ now - job.createdAt <= PRINT_JOB_TTL_MS
                          /\ job.failCount < MAX_FAILS
            kept == SelectSeq(printQueue, stays)
        IN /\ Len(printQueue') = Len(kept)
           /\ \A i \in 1..Len(kept) :
                /\ printQueue'[i].id = kept[i].id
                /\ printQueue'[i].failCount = kept[i].failCount
                /\ printQueue'[i].createdAt = kept[i].createdAt
                /\ printQueue'[i].imageBase64 = kept[i].imageBase64
                /\ printQueue'[i].meta = kept[i].meta
                /\ ClaimInForce(kept[i], now) => printQueue'[i] = kept[i]
                /\ ( last'.op = "sweep" /\ kept[i].claimedAt # 0
                     /\ ~ClaimInForce(kept[i], now) ) =>
                     /\ printQueue'[i].claimedAt = 0
                     /\ printQueue'[i].claimedBy = NULL
                     /\ (\A k \in 1..(i - 1) : printQueue'[k].claimedAt # 0) =>
                          findUnclaimed(printQueue') = i
    ]_vars

\* The sweep changed the queue without removing a job (every job ever
\* enqueued is still there): it released one claim and kept the other.
C9_Witness ==
  /\ last.op = "sweep"
  /\ events # <<>>
  /\ Len(printQueue) = 2 /\ nextId = 3
  /\ printQueue[1].claimedAt = 0
  /\ printQueue[2].claimedAt # 0

\* C10 as stated: a printed or failed report is applied to a job only while
\* the job is claimed; a report for an unclaimed job changes nothing.
C10_ReportOnlyWhileClaimed ==
  [][ ( /\ last'.op = "done"
        /\ last'.jobId \in Ids(printQueue)
        /\ JobOf(printQueue, last'.jobId).claimedAt = 0 ) =>
      printQueue' = printQueue
    ]_vars

\* C10, amended: a report is applied to a job in the queue whether or not the
\* job is claimed.  A printed report for an UNCLAIMED job is answered ok and
\* removes it; a failed report for an UNCLAIMED job is answered ok and takes
\* the retry transition (failCount + 1, still unclaimed) or, at MAX_FAILS,
\* removes it.
C10_ReportAppliesToUnclaimed ==
  [][ ( /\ last'.op = "done" /\ last'.status \in {"printed", "failed"}
        /\ last'.jobId \in Ids(printQueue)
        /\ JobOf(printQueue, last'.jobId).claimedAt = 0 ) =>
      LET job == JobOf(printQueue, last'.jobId)
      IN /\ last'.code = 200
         /\ last'.status = "printed" => job.id \notin Ids(printQueue')
         /\ last'.status = "failed" =>
              IF job.failCount + 1 >= MAX_FAILS
              THEN job.id \notin Ids(printQueue')
              ELSE /\ job.id \in Ids(printQueue')
                   /\ JobOf(printQueue', job.id).failCount = job.failCount + 1
                   /\ JobOf(printQueue', job.id).claimedAt = 0
    ]_vars

\* Job 2 was reported printed and removed although it was never claimed: the
\* older job 1 is unclaimed, has never failed and is as old as the clock, so
\* no claim request has returned any job yet.
C10_Witness ==
  /\ last.op = "done" /\ last.status = "printed" /\ last.code = 200 /\ last.jobId = 2
  /\ Len(printQueue) = 1
  /\ printQueue[1].id = 1
  /\ printQueue[1].claimedAt = 0
  /\ printQueue[1].failCount = 0
  /\ printQueue[1].createdAt = now

\* ----------------------------------------------------------------------
\* C11: a report that is rejected changes nothing. A report for a jobId that
\* is not in the queue (never issued or already removed) is answered 404
\* NOT_FOUND; a report for a job of the queue with a status other than
\* "printed" and "failed" (a missing status included) is answered 400
\* INVALID_STATUS; in both cases the queue (its jobs, their claims, their
\* failCounts, their order) is as before and nothing is emitted.
C11_RejectedReportChangesNothing ==
  [][ last'.op = "done" =>
        /\ last'.jobId \notin Ids(printQueue) => last'.code = 404
        /\ (last'.jobId \in Ids(printQueue) /\ last'.status \notin {"printed", "failed"})
             => last'.code = 400
        /\ last'.code \in {400, 404} =>
             /\ printQueue' = printQueue
             /\ events' = <<>>
             /\ nextId' = nextId ]_vars

\* An INVALID_STATUS report for a claimed job that failed before, next to a
\* second job: the queue it had to leave alone has claims, counts and order.
C11_Witness ==
  /\ last.op = "done" /\ last.code = 400
  /\ Len(printQueue) = 2
  /\ last.jobId \in Ids(printQueue)
  /\ JobOf(printQueue, last.jobId).claimedAt # 0
  /\ JobOf(printQueue, last.jobId).failCount > 0

\* ----------------------------------------------------------------------
\* C12: claimNext sees the collected queue whenever the timer last swept.
\* The job it returns is the first job of the queue, as it stood before the
\* call, that is no older than PRINT_JOB_TTL_MS, has fewer than MAX_FAILS
\* failures and has no claim in force (a claim older than PRINT_CLAIM_TTL_MS
\* is released and the job handed out in the same call); it answers 204
\* exactly when there is no such job, and the returned job is claimed by the
\* caller at the instant of the call.
C12_Claimable(job, t) ==
  /\ t - job.createdAt <= PRINT_JOB_TTL_MS
  /\ job.failCount < MAX_FAILS
  /\ ~ClaimInForce(job, t)

C12_ClaimSeesCollectedQueue ==
  [][ last'.op = "next" =>
        LET cands == {i \in 1..Len(printQueue) : C12_Claimable(printQueue[i], now)}
        IN /\ cands = {} => last'.code = 204
           /\ cands # {} =>
                LET first == CHOOSE i \in cands : \A k \in cands : i <= k
                    job == printQueue[first]
                IN /\ last'.code = 200
                   /\ last'.jobId = job.id
                   /\ JobOf(printQueue', job.id) =
                        [job EXCEPT !.claimedAt = now, !.claimedBy = last'.client]
           /\ \A i \in 1..Len(printQueue') :
                /\ now - printQueue'[i].createdAt <= PRINT_JOB_TTL_MS
                /\ printQueue'[i].failCount < MAX_FAILS ]_vars

\* The only job ever enqueued was released and handed out again in one call
\* (two queue updates: one for the collection, one for the claim).
C12_Witness ==
  /\ last.op = "next" /\ last.code = 200
  /\ nextId = 2 /\ Len(printQueue) = 1
  /\ Len(events) = 2
  /\ printQueue[1].claimedAt > printQueue[1].createdAt
\* ----------------------------------------------------------------------
\* C13 as stated: extra cleanupQueue passes between the operations never
\* change an operation's result; here, a report is answered as it would be
\* answered after one more pass at the same instant (NOT_FOUND exactly when
\* the pass leaves no job of that id).
C13_ExtraPassNeverChangesAReport ==
  [][ last'.op = "done" =>
        (last'.code = 404 <=>
           last'.jobId \notin Ids(cleanupQueue(printQueue, now).queue)) ]_vars

\* C13: cleanupQueue is idempotent. In every reachable state a second pass
\* at the same instant leaves the queue of the first pass as it is and
\* reports no change (so nothing more is emitted); and right after a sweep or
\* a claimNext, which both start with a pass, one more pass changes nothing.
C13_GcIdempotent ==
  /\ LET g1 == cleanupQueue(printQueue, now)
     IN cleanupQueue(g1.queue, now) = [queue |-> g1.queue, changed |-> FALSE]
  /\ GcRan(last) =>
       cleanupQueue(printQueue, now) = [queue |-> printQueue, changed |-> FALSE]

\* A sweep that evicted one of two jobs and kept the other.
C13_Witness ==
  /\ last.op = "sweep" /\ events # <<>>
  /\ nextId = 3 /\ Len(printQueue) = 1
\* ----------------------------------------------------------------------
\* C14: no job stays in the queue for ever. While time advances and the
\* periodic sweep keeps running, every job that is in the queue is eventually
\* out of it (printed, failed MAX_FAILS times, or evicted at its TTL),
\* whatever is claimed and reported in between.
C14_EveryJobEventuallyRemoved ==
  \A id \in 1..MaxLiveJobs : (id \in Ids(printQueue)) ~> (id \notin Ids(printQueue))

\* A sweep took the last job out of the queue: nobody reported it.
C14_Witness ==
  /\ last.op = "sweep" /\ events # <<>>
  /\ nextId > 1 /\ printQueue = <<>>
\* ----------------------------------------------------------------------
\* C15: a session takes one answer submission. A submission is accepted
\* only on a session that has no answer yet, and it makes the session
\* answered; a submission to an answered session of the store that has not
\* expired is refused with 409 ALREADY_USED whatever its body; no step
\* changes the keywords or answeredAt of an answered session, and a token
\* that has left the store never comes back, so no token is answered twice.
C15_OneAnswerPerSession ==
  [][ /\ sessionLast'.op = "answers" =>
          LET tok == sessionLast'.token
          IN /\ sessionLast'.code = 200 =>
                  /\ tok \in DOMAIN inputSessions
                  /\ inputSessions[tok].answeredAt = 0
                  /\ inputSessions'[tok].answeredAt = now
                  /\ inputSessions'[tok].keywords # <<>>
             /\ ( /\ tok \in DOMAIN inputSessions
                  /\ inputSessions[tok].answeredAt # 0
                  /\ now - inputSessions[tok].createdAt <= INPUT_SESSION_TTL_MS )
                  => /\ sessionLast'.code = 409
                     /\ sessionLast'.error = "ALREADY_USED"
                     /\ inputSessions' = inputSessions
      /\ \A tok \in DOMAIN inputSessions \cap DOMAIN inputSessions' :
           inputSessions[tok].answeredAt # 0 => inputSessions'[tok] = inputSessions[tok]
      /\ \A tok \in DOMAIN inputSessions' \ DOMAIN inputSessions :
           tok = nextToken /\ nextToken' = nextToken + 1 ]_vars

\* A second submission, with another name and other answers than the stored
\* ones, was refused.
C15_Witness ==
  /\ sessionLast.op = "answers" /\ sessionLast.code = 409
  /\ sessionLast.body.t = "object"
  /\ sessionLast.body.name = Str(<<" ", "B", "o", " ">>)
  /\ sessionLast.token \in DOMAIN inputSessions
  /\ inputSessions[sessionLast.token].keywords[2] = <<"n", "a", "m", "e", ":", "A", "l">>

\* ----------------------------------------------------------------------
\* C16: a submission to a pending, unexpired session whose name is missing
\* or blank, whose answers mapping is missing, or which has no answer or a
\* blank answer for one of the session's questions, is refused with 400
\* INVALID_INPUT and leaves the store as it is: the session stays pending,
\* without keywords.
C16_Blank(v) ==
  \/ v.t = "undefined"
  \/ v.t = "string" /\ \A i \in 1..Len(v.s) : v.s[i] = " "

C16_Defective(body, session) ==
  /\ body.t = "object"
  /\ \/ C16_Blank(body.name)
     \/ body.answers.t = "undefined"
     \/ /\ body.answers.t = "object"
        /\ \E i \in 1..Len(session.questions) :
             \/ session.questions[i].id \notin DOMAIN body.answers.map
             \/ C16_Blank(body.answers.map[session.questions[i].id])

C16_InvalidAnswersRejected ==
  [][ ( /\ sessionLast'.op = "answers"
        /\ sessionLast'.token \in DOMAIN inputSessions
        /\ inputSessions[sessionLast'.token].answeredAt = 0
        /\ now - inputSessions[sessionLast'.token].createdAt <= INPUT_SESSION_TTL_MS
        /\ C16_Defective(sessionLast'.body, inputSessions[sessionLast'.token]) )
      => /\ sessionLast'.code = 400
         /\ sessionLast'.error = "INVALID_INPUT"
         /\ inputSessions' = inputSessions
         /\ inputSessions'[sessionLast'.token].answeredAt = 0
         /\ inputSessions'[sessionLast'.token].keywords = <<>> ]_vars

\* A submission with one blank answer was refused; the session is pending.
C16_Witness ==
  /\ sessionLast.op = "answers" /\ sessionLast.code = 400
  /\ sessionLast.token \in DOMAIN inputSessions
  /\ sessionLast.body.t = "object"
  /\ ~C16_Blank(sessionLast.body.name)
  /\ sessionLast.body.answers.t = "object"
  /\ 3 \in DOMAIN sessionLast.body.answers.map
  /\ sessionLast.body.answers.map[3] = Str(<<" ">>)
  /\ inputSessions[sessionLast.token].answeredAt = 0

\* ----------------------------------------------------------------------
\* C17: an expired session is answered like a token that was never issued.
\* Once now - createdAt > INPUT_SESSION_TTL_MS, the questions, status and
\* answers routes answer 404 NOT_FOUND with no payload, answered session or
\* not, and that lookup takes the session out of the store; a token that is
\* not in the store (never issued, swept, or removed by a lookup) gets the
\* same response; and no step changes a session that is expired.
C17_ExpiredIsMissing ==
  [][ /\ sessionLast'.op \in {"get", "status", "answers"} =>
          LET tok == sessionLast'.token
              notFound == SessionResponse(sessionLast'.op, tok, sessionLast'.body,
                                          404, "NOT_FOUND", NoReply)
          IN /\ ( tok \in DOMAIN inputSessions
                  /\ now - inputSessions[tok].createdAt > INPUT_SESSION_TTL_MS )
                  => /\ sessionLast' = notFound
                     /\ tok \notin DOMAIN inputSessions'
             /\ tok \notin DOMAIN inputSessions
                  => /\ sessionLast' = notFound
                     /\ inputSessions' = inputSessions
      /\ \A tok \in DOMAIN inputSessions \cap DOMAIN inputSessions' :
           now - inputSessions[tok].createdAt > INPUT_SESSION_TTL_MS
             => inputSessions'[tok] = inputSessions[tok] ]_vars

\* A valid submission to an issued token was answered NOT_FOUND and the
\* store is empty although the timer never ran: the lookup removed the
\* session.
C17_Witness ==
  /\ sessionLast.op = "answers" /\ sessionLast.code = 404
  /\ sessionLast.body = Body(Str(<<"A", "l">>), AnswerMap([id \in 1..5 |-> Str(<<"x">>)]))
  /\ sessionLast.token < nextToken
  /\ inputSessions = <<>>
  /\ last.op = "start"
\* ----------------------------------------------------------------------
\* C18: a generator operation makes at most three backend calls, one after
\* the other. Every iteration makes exactly one call; an attempt whose
\* response parses and validates ends the operation at once with its result;
\* a failed attempt (the call threw, or the content was empty, unparsable or
\* invalid) is logged and followed by a further call while fewer than three
\* were made; when the third fails the operation throws the error of that
\* third attempt; and once it has returned or thrown it makes no call.
C18_AttemptOf(op, outcome) ==
  IF op = "card" THEN cardAttempt(outcome) ELSE questionsAttempt(outcome)

C18_AtMostThreeSequentialCalls ==
  [][ /\ gen'.calls <= 3
      /\ gen.pc = "running" =>
           LET r == C18_AttemptOf(gen.op, gen'.response)
           IN /\ gen'.calls = gen.calls + 1
              /\ r.ok => /\ gen'.pc = "returned"
                         /\ gen'.log = gen.log
              /\ (~r.ok /\ gen'.calls < 3) =>
                    /\ gen'.pc = "running"
                    /\ gen'.log = Append(gen.log, r.error)
              /\ (~r.ok /\ gen'.calls = 3) =>
                    /\ gen'.pc = "thrown"
                    /\ gen'.error = r.error
      /\ gen.pc \in {"returned", "thrown"} => gen' = GenIdle
      /\ gen.pc = "idle" => gen'.calls = 0
      /\ gen'.pc = "running" => gen'.calls = Len(gen'.log)
      /\ gen'.pc = "returned" => gen'.calls = Len(gen'.log) + 1
      /\ gen'.pc = "thrown" => gen'.calls = Len(gen'.log) ]_vars

\* Three attempts failed in three different ways; the operation threw the
\* error of the third.
C18_Witness ==
  /\ gen.pc = "thrown" /\ gen.calls = 3
  /\ gen.log = <<"Ollama error 500", "JSON parse failed: empty response",
                 "Schema validation failed">>
  /\ gen.error = "Schema validation failed"

\* ----------------------------------------------------------------------
\* C19: a card response that lacks one of the five stats, or whose stat is
\* the number 0, 101 or 3.5, is rejected as "Schema validation failed" and
\* the loop goes on to the next call while fewer than three were made; a
\* card that is returned has exactly the five stats, each an integer from 1
\* to 100 that is the value of the response, neither rounded nor clamped.
C19_Parsed(text) ==
  IF jsonParse(text).ok THEN jsonParse(text) ELSE extractJsonObject(trim(text))

C19_BadStats(raw) ==
  /\ raw.t = "object"
  /\ raw.stats.t = "object"
  /\ \E k \in StatNames :
       \/ k \notin DOMAIN raw.stats.map
       \/ /\ raw.stats.map[k].t = "number"
          /\ \/ raw.stats.map[k].n % 2 = 1
             \/ raw.stats.map[k].n < 2
             \/ raw.stats.map[k].n > 200

C19_StatsValidated ==
  [][ (gen.pc = "running" /\ gen.op = "card") =>
        LET out == gen'.response
        IN /\ ( /\ out.kind = "content"
                /\ C19_Parsed(out.text).ok
                /\ C19_BadStats(C19_Parsed(out.text).value) )
                => /\ gen'.pc # "returned"
                   /\ gen'.log = Append(gen.log, "Schema validation failed")
                   /\ gen'.calls < 3 => gen'.pc = "running"
           /\ gen'.pc = "returned" =>
                LET raw == C19_Parsed(out.text).value
                IN /\ DOMAIN gen'.card.stats = StatNames
                   /\ \A k \in StatNames :
                        /\ gen'.card.stats[k] \in 1..100
                        /\ NumberOf(raw.stats.map[k]) = 2 * gen'.card.stats[k] ]_vars

\* A card with the stats 1 and 100 was returned by the attempt that followed
\* a response rejected for its stats.
C19_Witness ==
  /\ gen.pc = "returned" /\ gen.op = "card"
  /\ gen.log = <<"Schema validation failed">>
  /\ gen.card.stats["sense"] = 1
  /\ gen.card.stats["logic"] = 100

\* ----------------------------------------------------------------------
\* C20: a question set returned by generateQuestions has 4 or 5 questions,
\* ids that are positive integers and pairwise distinct, and a non-empty
\* sessionId.
C20_QuestionSetWellFormed ==
  (gen.pc = "returned" /\ gen.op = "questions") =>
    LET qs == gen.questions.questions
    IN /\ Len(qs) \in {4, 5}
       /\ \A i \in 1..Len(qs) : qs[i].id \in Nat \ {0}
       /\ \A i, j \in 1..Len(qs) : i # j => qs[i].id # qs[j].id
       /\ gen.questions.sessionId # <<>>

\* ----------------------------------------------------------------------
\* C21: parse recovery inside one attempt. For a response whose content is
\* not blank: when the content parses as JSON, the parsed value is the one
\* that is validated; when it does not parse, the span from its first "{" to
\* its last "}" is parsed instead, in the same attempt and without another
\* backend call, and a span that parses and validates makes that attempt
\* return; the attempt fails with a parse error exactly when the content
\* does not parse and there is no such span or the span does not parse.
C21_Span(text) ==
  LET opens == {i \in 1..Len(text) : text[i] = "{"}
      closes == {i \in 1..Len(text) : text[i] = "}"}
      start == CHOOSE i \in opens : \A k \in opens : i <= k
      end == CHOOSE i \in closes : \A k \in closes : k <= i
  IN IF opens = {} \/ closes = {} THEN NoValue
     ELSE IF end <= start THEN NoValue
     ELSE jsonParse(SubSeq(text, start, end))

C21_Valid(op, value) ==
  IF op = "card" THEN ~normalizeCardData(value).null ELSE ~normalizeQuestions(value).null

C21_ParseErrors ==
  {"JSON parse failed", "Question JSON parse failed"}

C21_ParseRecovery ==
  [][ ( /\ gen.pc = "running"
        /\ gen'.response.kind = "content"
        /\ trim(gen'.response.text) # <<>> )
      => LET text == gen'.response.text
             direct == jsonParse(text)
             span == C21_Span(trim(text))
             parsed == IF direct.ok THEN direct ELSE span
         IN /\ gen'.calls = gen.calls + 1
            /\ (parsed.ok /\ C21_Valid(gen.op, parsed.value)) =>
                 /\ gen'.pc = "returned"
                 /\ gen.op = "card" => gen'.card = normalizeCardData(parsed.value)
                 /\ gen.op = "questions" =>
                      gen'.questions = normalizeQuestions(parsed.value)
            /\ (parsed.ok /\ ~C21_Valid(gen.op, parsed.value)) =>
                 /\ gen'.pc # "returned"
                 /\ gen'.lastError \notin C21_ParseErrors
            /\ ~parsed.ok <=>
                 (gen'.pc # "returned" /\ gen'.lastError \in C21_ParseErrors) ]_vars

\* A card wrapped in prose was returned by the first and only call.
C21_Witness ==
  /\ gen.pc = "returned" /\ gen.op = "card"
  /\ gen.calls = 1 /\ gen.log = <<>>
  /\ gen.response.text = <<"O", "K", ":", " ", "{", "cGood", "}", " ", "!">>
  /\ ~gen.card.null

\* ----------------------------------------------------------------------
\* C22: the queue_update broadcasts track the queue. A handler that changes
\* the queue broadcasts, as its last event, a print:queue_update whose
\* pendingCount is the number of unclaimed jobs of the queue it leaves; a
\* handler never ends on a stale count; an accepted enqueue broadcasts
\* exactly one print:new_job with the id of the new job and then the
\* queue_update, and no other handler broadcasts a new_job.
C22_Unclaimed(q) == Cardinality({i \in 1..Len(q) : q[i].claimedAt = 0})

C22_NotificationsTrackQueue ==
  [][ /\ printQueue' # printQueue => events' # <<>>
      /\ events' # <<>> =>
           /\ events'[Len(events')].type = "print:queue_update"
           /\ events'[Len(events')].pendingCount = C22_Unclaimed(printQueue')
      /\ (last'.op = "print" /\ last'.code = 200) =>
           /\ Len(events') = 2
           /\ events'[1].type = "print:new_job"
           /\ events'[1].jobId = last'.jobId
           /\ events'[1].jobId = printQueue'[Len(printQueue')].id
           /\ events'[2].type = "print:queue_update"
      /\ ~(last'.op = "print" /\ last'.code = 200) =>
           \A i \in 1..Len(events') : events'[i].type = "print:queue_update" ]_vars

\* A claimNext whose collection released a claim (one job pending) and which
\* then claimed a job (none pending): two updates, the last one current.
C22_Witness ==
  /\ last.op = "next" /\ last.code = 200
  /\ Len(events) = 2
  /\ events[1].pendingCount = 1
  /\ events[2].pendingCount = 0

\* ----------------------------------------------------------------------
\* C23: a card is returned only for a response whose five stats are JSON
\* numbers and whose name, class, skill and description are JSON strings.
C23_WellTyped(raw) ==
  /\ raw.t = "object"
  /\ raw.name.t = "string" /\ raw.class.t = "string"
  /\ raw.skill.t = "string" /\ raw.description.t = "string"
  /\ raw.stats.t = "object"
  /\ \A k \in StatNames :
       k \in DOMAIN raw.stats.map /\ raw.stats.map[k].t = "number"

C23_WronglyTypedRejected ==
  (gen.pc = "returned" /\ gen.op = "card") =>
    C23_WellTyped(C19_Parsed(gen.response.text).value)

\* ----------------------------------------------------------------------
\* C24: failCount only counts failed reports. A job enters the queue with
\* failCount 0; from one state to the next the failCount of a job that stays
\* in the queue goes up by exactly 1 when the step is a failed report for
\* that job that was answered ok, and is unchanged in every other step
\* (enqueue, claimNext, reports on other jobs, rejected reports, GC passes,
\* the clock); it never goes down.
C24_FailCountMonotone ==
  [][ /\ \A i \in 1..Len(printQueue), k \in 1..Len(printQueue') :
           printQueue[i].id = printQueue'[k].id =>
             printQueue'[k].failCount =
               IF /\ last'.op = "done" /\ last'.status = "failed"
                  /\ last'.code = 200 /\ last'.jobId = printQueue[i].id
               THEN printQueue[i].failCount + 1
               ELSE printQueue[i].failCount
      /\ \A k \in 1..Len(printQueue') :
           printQueue'[k].id \notin Ids(printQueue) =>
             /\ printQueue'[k].failCount = 0
             /\ last'.op = "print" ]_vars

\* The second failed report for a job: its count went from 1 to 2 across a
\* release and a new claim.
C24_Witness ==
  /\ last.op = "done" /\ last.status = "failed" /\ last.code = 200
  /\ last.jobId \in Ids(printQueue)
  /\ JobOf(printQueue, last.jobId).failCount = 2

\* ----------------------------------------------------------------------
\* C25: id, image, metadata and createdAt of a job are fixed at enqueue. A
\* job that is in the queue before and after a step has the same four
\* values; a job that enters the queue carries the image and metadata of
\* the request and the time of the request; and the job that a claimNext
\* hands out is that job of the queue, changed in its claim fields only.
C25_Payload(job) ==
  [id |-> job.id, imageBase64 |-> job.imageBase64, meta |-> job.meta,
   createdAt |-> job.createdAt]

C27_Text(value) ==
  LET nonBlank(s) == {i \in 1..Len(s) : s[i] # " "}
      first(s) == CHOOSE i \in nonBlank(s) : \A k \in nonBlank(s) : i <= k
      final(s) == CHOOSE i \in nonBlank(s) : \A k \in nonBlank(s) : k <= i
  IN IF nonBlank(value.s) = {} THEN <<>>
     ELSE SubSeq(value.s, first(value.s), final(value.s))

C27_Expected(session, body) ==
  << <<"s", "e", "s", "s", "i", "o", "n", ":">> \o session.sessionId,
     <<"n", "a", "m", "e", ":">> \o C27_Text(body.name) >>
  \o [i \in 1..Len(session.questions) |->
        <<"q">> \o Dec(session.questions[i].id) \o <<":">>
        \o C27_Text(body.answers.map[session.questions[i].id])]

C27_AnswerStateWrittenOnce ==
  [][ /\ \A tok \in DOMAIN inputSessions' :
           (inputSessions'[tok].keywords # <<>>) <=> (inputSessions'[tok].answeredAt # 0)
      /\ (sessionLast'.op = "answers" /\ sessionLast'.code = 200) =>
           LET tok == sessionLast'.token
           IN /\ inputSessions'[tok].keywords =
                   C27_Expected(inputSessions[tok], sessionLast'.body)
              /\ Len(inputSessions'[tok].keywords) = 2 + Len(inputSessions[tok].questions)
              /\ inputSessions'[tok].answeredAt = now
      /\ \A tok \in DOMAIN inputSessions \cap DOMAIN inputSessions' :
           inputSessions[tok].answeredAt # 0 =>
             /\ inputSessions'[tok].keywords = inputSessions[tok].keywords
             /\ inputSessions'[tok].answeredAt = inputSessions[tok].answeredAt ]_vars

\* A session of five questions answered with a padded name and padded
\* answers: seven keywords, all trimmed.
C27_Witness ==
  /\ sessionLast.op = "answers" /\ sessionLast.code = 200
  /\ sessionLast.body.name = Str(<<" ", "B", "o", " ">>)
  /\ Len(inputSessions[sessionLast.token].keywords) = 7
  /\ inputSessions[sessionLast.token].keywords[2] = <<"n", "a", "m", "e", ":", "B", "o">>
  /\ inputSessions[sessionLast.token].keywords[7] = <<"q", "5", ":", "y">>

\* ----------------------------------------------------------------------
\* C28: the two read routes show the answer state of an unexpired session
\* and leave the store alone. For a pending session the questions route
\* returns its sessionId and questions and the status route returns pending;
\* for an answered session the questions route answers 409 ALREADY_USED and
\* the status route returns answered with the keywords that are stored.
C28_ReadsReflectAnswerState ==
  [][ ( /\ sessionLast'.op \in {"get", "status"}
        /\ sessionLast'.token \in DOMAIN inputSessions
        /\ now - inputSessions[sessionLast'.token].createdAt <= INPUT_SESSION_TTL_MS )
      => LET session == inputSessions[sessionLast'.token]
             r == sessionLast'
         IN /\ inputSessions' = inputSessions
            /\ (r.op = "get" /\ session.answeredAt = 0) =>
                 /\ r.code = 200
                 /\ r.reply = [NoReply EXCEPT !.sessionId = session.sessionId,
                                              !.questions = session.questions]
            /\ (r.op = "get" /\ session.answeredAt # 0) =>
                 /\ r.code = 409 /\ r.error = "ALREADY_USED"
                 /\ r.reply = NoReply
            /\ (r.op = "status" /\ session.answeredAt = 0) =>
                 /\ r.code = 200
                 /\ r.reply = [NoReply EXCEPT !.status = "pending"]
            /\ (r.op = "status" /\ session.answeredAt # 0) =>
                 /\ r.code = 200
                 /\ r.reply = [NoReply EXCEPT !.status = "answered",
                                              !.keywords = session.keywords] ]_vars

\* The status of an answered session was read: answered, with its keywords.
C28_Witness ==
  /\ sessionLast.op = "status" /\ sessionLast.code = 200
  /\ sessionLast.reply.status = "answered"
  /\ Len(sessionLast.reply.keywords) = 6
  /\ sessionLast.token \in DOMAIN inputSessions
  /\ sessionLast.reply.keywords = inputSessions[sessionLast.token].keywords

\* ----------------------------------------------------------------------
\* C29: the periodic sweep purges by age alone. The store a sweep at time
\* now leaves is the store it found without the sessions whose age
\* now - createdAt is above INPUT_SESSION_TTL_MS, answered or not: none of
\* those remains and the others are as they were. While time advances and
\* the timer keeps firing, every session of the store is eventually out of it.
C29_SessionSweep ==
  /\ [][ sessionLast'.op = "sweep" =>
           /\ \A tok \in DOMAIN inputSessions' :
                now - inputSessions'[tok].createdAt <= INPUT_SESSION_TTL_MS
           /\ \A tok \in DOMAIN inputSessions :
                now - inputSessions[tok].createdAt <= INPUT_SESSION_TTL_MS =>
                  /\ tok \in DOMAIN inputSessions'
                  /\ inputSessions'[tok] = inputSessions[tok]
           /\ DOMAIN inputSessions' \subseteq DOMAIN inputSessions ]_vars
  /\ \A tok \in Tokens :
       (tok \in DOMAIN inputSessions) ~> (tok \notin DOMAIN inputSessions)

\* A sweep has run past the lifetime of the one session that was created, and
\* the store is empty.
C29_Witness ==
  /\ sessionLast.op = "sweep"
  /\ nextToken = 2
  /\ inputSessions = <<>>
  /\ last.op = "sweep" /\ now > 1 + INPUT_SESSION_TTL_MS

\* ----------------------------------------------------------------------
\* C30: the expiresAt that start-session returns is the stored createdAt plus
\* INPUT_SESSION_TTL_MS, createdAt being the time of the request and never
\* rewritten. A request that names a token is answered NOT_FOUND exactly when
\* the token is not in the store or the time is past createdAt +
\* INPUT_SESSION_TTL_MS: at that instant itself the session is still found.
\* A session leaves the store only past that instant, the clock never goes
\* back and a token that left the store does not return to it.
C30_ReachableUntilExpiresAt ==
  [][ /\ nextToken' # nextToken =>
           LET tok == sessionLast'.token
           IN /\ sessionLast'.op = "create" /\ sessionLast'.code = 200
              /\ tok = nextToken /\ nextToken' = nextToken + 1
              /\ tok \notin DOMAIN inputSessions
              /\ tok \in DOMAIN inputSessions'
              /\ inputSessions'[tok].createdAt = now
              /\ sessionLast'.reply.expiresAt =
                   inputSessions'[tok].createdAt + INPUT_SESSION_TTL_MS
      /\ (sessionLast'.op \in {"get", "status", "answers"} /\ now' = now) =>
           LET tok == sessionLast'.token
           IN (sessionLast'.code = 404) <=>
                \/ tok \notin DOMAIN inputSessions
                \/ now > inputSessions[tok].createdAt + INPUT_SESSION_TTL_MS
      /\ \A tok \in DOMAIN inputSessions :
           IF tok \in DOMAIN inputSessions'
           THEN inputSessions'[tok].createdAt = inputSessions[tok].createdAt
           ELSE now > inputSessions[tok].createdAt + INPUT_SESSION_TTL_MS
      /\ \A tok \in DOMAIN inputSessions' :
           tok \in DOMAIN inputSessions \/ tok = nextToken
      /\ now' >= now ]_vars

\* The answers were accepted at the very instant expiresAt.
C30_Witness ==
  /\ sessionLast.op = "answers" /\ sessionLast.code = 200
  /\ sessionLast.token \in DOMAIN inputSessions
  /\ inputSessions[sessionLast.token].answeredAt = now
  /\ now = inputSessions[sessionLast.token].createdAt + INPUT_SESSION_TTL_MS

C32_Empty(value) == trim(StringOf(value)) = <<>>

C32_Accepted(value, maxLen, result) ==
  LET t == trim(StringOf(value))
  IN /\ result # <<>>
     /\ Len(result) = IF Len(t) > maxLen THEN maxLen ELSE Len(t)
     /\ result = SubSeq(t, 1, Len(result))

C32_After(text, prefix) == SubSeq(text, Len(prefix) + 1, Len(text))

C32_StringLengthPolicy ==
  /\ (gen.op = "card" /\ gen.calls > 0) =>
       LET raw == jsonParse(gen.response.text).value
       IN IF \/ C32_Empty(raw.name) \/ C32_Empty(raw.class)
             \/ C32_Empty(raw.skill) \/ C32_Empty(raw.description)
          THEN gen.pc # "returned" /\ gen.lastError = "Schema validation failed"
          ELSE /\ gen.pc = "returned"
               /\ C32_Accepted(raw.name, 12, gen.card.name)
               /\ C32_Accepted(raw.class, 15, gen.card.class)
               /\ C32_Accepted(raw.skill, 20, gen.card.skill)
               /\ C32_Accepted(raw.description, 60, gen.card.description)
  /\ (gen.op = "questions" /\ gen.calls > 0) =>
       LET items == jsonParse(gen.response.text).value.questions.items
       IN IF \E i \in 1..Len(items) : C32_Empty(items[i].text)
          THEN gen.pc # "returned" /\ gen.lastError = "Question schema validation failed"
          ELSE /\ gen.pc = "returned"
               /\ Len(gen.questions.questions) = Len(items)
               /\ \A i \in 1..Len(items) :
                    C32_Accepted(items[i].text, 30, gen.questions.questions[i].text)
  /\ \A tok \in DOMAIN inputSessions :
       \A i \in 1..Len(inputSessions[tok].questions) :
         Len(inputSessions[tok].questions[i].text) \in 1..30
  /\ (sessionLast.op = "answers" /\ sessionLast.code \in {200, 400}) =>
       LET session == inputSessions[sessionLast.token]
           body == sessionLast.body
           qs == session.questions
       IN /\ sessionLast.code = 400 <=>
               \/ C32_Empty(body.name)
               \/ \E i \in 1..Len(qs) : C32_Empty(answerOf(body.answers, qs[i].id))
          /\ sessionLast.code = 200 =>
               /\ Len(session.keywords) = 2 + Len(qs)
               /\ C32_Accepted(body.name, 12,
                               C32_After(session.keywords[2], <<"n", "a", "m", "e", ":">>))
               /\ \A i \in 1..Len(qs) :
                    C32_Accepted(answerOf(body.answers, qs[i].id), 200,
                                 C32_After(session.keywords[2 + i],
                                           <<"q">> \o Dec(qs[i].id) \o <<":">>))

\* A card was returned whose four texts were cut to 12, 15, 20 and 60
\* characters, while answers with a name of 13 and an answer of 201
\* characters, blanks not counted, were accepted and stored with 12 and 200.
C32_Witness ==
  /\ gen.pc = "returned" /\ gen.op = "card"
  /\ gen.response = Content(<<"{", "cLong", "}">>)
  /\ Len(gen.card.name) = 12 /\ Len(gen.card.class) = 15
  /\ Len(gen.card.skill) = 20 /\ Len(gen.card.description) = 60
  /\ sessionLast.op = "answers" /\ sessionLast.code = 200
  /\ sessionLast.body.name = Str(Padded(13))
  /\ sessionLast.body.answers.map[2] = Str(Padded(201))
  /\ Len(inputSessions[sessionLast.token].questions[1].text) = 30
  /\ Len(inputSessions[sessionLast.token].keywords[2]) = 5 + 12
  /\ Len(inputSessions[sessionLast.token].keywords[4]) = 3 + 200

\* ----------------------------------------------------------------------
\* C33: a generate-card request whose body has no keywords, keywords that
\* are not a list, an empty list or a list of blank texts only is answered at
\* once with 400 INVALID_INPUT: generateCardData is not called, so no backend
\* call is made for it and nothing is retried. A request with at least one
\* non-blank keyword goes on to the generator with the trimmed non-blank
\* keywords.
C33_NoKeywords(body) ==
  \/ body.t # "object"
  \/ body.keywords.t # "array"
  \/ \A i \in 1..Len(body.keywords.items) :
       /\ body.keywords.items[i].t = "string"
       /\ \A c \in 1..Len(body.keywords.items[i].s) : body.keywords.items[i].s[c] = " "

C33_InvalidInputNotRetried ==
  /\ [][ (api.pc = "idle" /\ api'.route = "generate" /\ api' # api) =>
           IF C33_NoKeywords(api'.body)
           THEN /\ api'.pc = "idle"
                /\ api'.code = 400 /\ api'.error = "INVALID_INPUT"
                /\ api'.calls = 0
                /\ gen' = gen /\ gen.pc = "idle"
           ELSE /\ api'.pc = "generating" /\ api'.code = 0
                /\ gen'.pc = "running" /\ gen'.op = "card"
                /\ Len(api'.keywords) > 0
                /\ \A i \in 1..Len(api'.keywords) :
                     /\ api'.keywords[i] # <<>>
                     /\ api'.keywords[i] = trim(api'.keywords[i]) ]_vars
  /\ [](api.code = 400 => (api.pc = "idle" /\ api.calls = 0 /\ gen.calls = 0))

\* A list of blank keywords was refused.
C33_Witness ==
  /\ api.route = "generate" /\ api.code = 400 /\ api.error = "INVALID_INPUT"
  /\ api.body = GenerateBody(Keywords(<<Str(<<" ">>), Str(<<>>)>>))
  /\ gen = GenIdle

\* ----------------------------------------------------------------------
\* C34: only the exhaustion of the generator's retries is answered with
\* AI_FAILED. A generate-card or generate-questions request that was
\* answered AI_FAILED made three backend calls, all of which failed, and no
\* attempt of it yielded a valid record.
C34_OnlyExhaustionIsAiFailed ==
  (api.pc = "idle" /\ api.error = "AI_FAILED") =>
    /\ api.code = 500
    /\ api.calls = 3
    /\ api.cardData.null

\* ----------------------------------------------------------------------
\* C35: the generator touches neither the queue nor the sessions. A step
\* of a generator call (its start, an attempt that succeeds, fails or times
\* out, its return or throw) leaves the print queue, the session store and
\* both id counters as they were, and a step of a queue or session handler
\* leaves the generator call as it was. While a generator call is suspended
\* on the backend the queue and session handlers are not held back: in every
\* such state the event loop can serve a claim request and a status request,
\* and enqueue a job or start a session (as long as the model's counters
\* allow one more), all without a step of the generator call.
C35_GeneratorIsolated ==
  /\ [][ /\ gen' # gen =>
              /\ printQueue' = printQueue /\ nextId' = nextId
              /\ inputSessions' = inputSessions /\ nextToken' = nextToken
              /\ events' = events
         /\ (last' # last \/ sessionLast' # sessionLast) => gen' = gen ]_vars
  /\ [](gen.pc = "running" =>
          /\ ENABLED (QueueRequests /\ last'.op = "next")
          /\ ENABLED (SessionRequests /\ sessionLast'.op = "status")
          /\ nextId <= MaxJobs =>
               ENABLED (QueueRequests /\ last'.op = "print" /\ last'.code = 200
                        /\ Len(printQueue') = Len(printQueue) + 1)
          /\ nextToken <= MaxSessions =>
               ENABLED (SessionRequests /\ sessionLast'.op = "create"
                        /\ sessionLast'.code = 200
                        /\ nextToken \in DOMAIN inputSessions'))

\* A generator call is suspended on its third backend call, after two
\* timeouts; the queue holds a claimed job and the store a session whose
\* status was read.
C35_Witness ==
  /\ gen.pc = "running" /\ gen.attempt = 3
  /\ gen.log = <<"This operation was aborted", "This operation was aborted">>
  /\ Len(printQueue) = 1 /\ printQueue[1].claimedAt # 0
  /\ last.op = "next"
  /\ DOMAIN inputSessions = {1}
  /\ sessionLast.op = "status" /\ sessionLast.code = 200


\* --------------------------------------------------------------------------
\* C37: a print station works on one job at a time: a station never has two
\* GET /api/print/next requests in flight, and never holds two jobs it has
\* claimed and not yet reported.
CallsAt(s, pcs) ==
  {i \in 1..Len(printStation[s].calls) : printStation[s].calls[i].pc \in pcs}

C37_OneJobAtATime ==
  \A s \in StationIds :
    /\ Cardinality(CallsAt(s, {"fetch"})) <= 1
    /\ Cardinality(CallsAt(s, {"agent", "report"})) <= 1

\* --------------------------------------------------------------------------
\* C38: for each job a station received, the station sends exactly one
\* report, printed if and only if the print agent answered with success; a
\* job the agent printed is never reported as failed.
C38_ExactlyOneReport ==
  \A s \in StationIds : \A i \in 1..Len(printStation[s].calls) :
    LET call == printStation[s].calls[i]
    IN /\ Len(call.sent) <= 1
       /\ (call.pc = "finally" /\ call.jobId # 0) =>
            /\ Len(call.sent) = 1
            /\ call.sent[1] = "printed" <=> call.agentOk
       /\ call.agentOk => \A k \in 1..Len(call.sent) : call.sent[k] # "failed"

\* --------------------------------------------------------------------------
\* C36: the notify-then-poll loop quiesces.  A GET /api/print/next that finds
\* no unclaimed job after a GC pass that changed nothing answers 204, emits
\* no event and leaves the queue as it was; and once the kiosk, the clock and
\* the sweep have stopped, the stations stop too: from some point on no
\* station has an event to handle or a claim request in flight.
C36_Quiet ==
  \A s \in StationIds :
    /\ printStation[s].inbox = 0
    /\ \A i \in 1..Len(printStation[s].calls) : printStation[s].calls[i].pc # "fetch"

C36_Quiesces ==
  /\ [][ \A s \in StationIds : \A i \in 1..MaxCalls :
          ( /\ StationFetch(s, i)
            /\ findUnclaimed(printQueue) = 0
            /\ ~cleanupQueue(printQueue, now).changed )
          => /\ last'.code = 204
             /\ events' = <<>>
             /\ printQueue' = printQueue
             /\ printStation'[s].calls[i].pc = "finally"
             /\ \A t \in StationIds : printStation'[t].inbox = printStation[t].inbox ]_vars
  /\ <>[]C36_Quiet

\* Both stations have polled after the kiosk's job: stationA holds it, the
\* poll of stationB found nothing, and nothing is left to do.
C36_Witness ==
  /\ C36_Quiet
  /\ Len(printQueue) = 1
  /\ printQueue[1].claimedBy = "stationA"
  /\ last = Response("next", "stationB", 0, "", 204)
  /\ events = <<>>
  /\ printStation["stationB"].mounted
  /\ printStation["stationB"].calls = <<>>
  /\ ~printStation["stationB"].busy
====
